---- MODULE Spec2Model ----
(***************************************************************************)
(* TeleClaude: a PTY session shared by many clients, and the code-server   *)
(* supervisor behind its reverse proxy.                                    *)
(*                                                                         *)
(*   server/pty_session.py    PTYSession, SessionManager                   *)
(*   server/main.py           websocket_terminal, proxy_to_vscode,         *)
(*                            vscode_websocket_proxy                       *)
(*   server/vscode_manager.py VSCodeInstance, VSCodeManager                *)
(*                                                                         *)
(* One module, several specifications over the same variables: each one    *)
(* moves the variables of one subsystem and leaves the others alone.       *)
(*   SpecBroadcast  _broadcast_output called directly with any chunk       *)
(*   Spec           the reader thread, the event loop and the websocket    *)
(*                  clients of one PTYSession                              *)
(*   SpecSession    the SessionManager registry and the life of its        *)
(*                  PTYSession objects (start, reader exit, cleanup,       *)
(*                  write)                                                 *)
(*   SpecVSCode     the VSCodeManager supervisor, its idle sweep, and the  *)
(*                  HTTP proxy and websocket tunnel that touch instances   *)
(*   SpecNotify     the idle-output notifier of one PTYSession: chunks,    *)
(*                  the debounce timer, the check and the blocking send    *)
(*   SpecProxy      login and logout, and the authentication and the       *)
(*                  forwarding of the HTTP proxy and the tunnel upgrade    *)
(*   SpecRewrite    the location header of a proxied response              *)
(*   SpecTerminal   terminal websockets against the session registry:      *)
(*                  resolution, refusal, the receive loop                  *)
(*   SpecLifecycle  sessions and their code-servers from creation to       *)
(*                  deletion and server shutdown                           *)
(*   SpecRelay      the two forwarding loops of one tunnel; SpecRelayFair  *)
(*                  adds weak fairness of the event loop's steps           *)
(*   SpecApi        the session endpoints of main.py: create, delete,      *)
(*                  restart, set the notification topic                    *)
(*   SpecStart      VSCodeManager.start called with any directory, stop,   *)
(*                  the idle sweep and process exits                       *)
(*   SpecNotifyThreads  one timer thread followed line by line through     *)
(*                  _check_and_notify and _send_notification while the     *)
(*                  event loop sets the topic                              *)
(*   SpecLaunch     get_or_create_session when the launch fails, in the    *)
(*                  server process or in the forked child                  *)
(*   SpecSinks      broadcasts to clients whose sinks raise                *)
(*   SpecCallers    two requests inside get_or_create_session              *)
(*   SpecReader     the reader thread statement by statement against the   *)
(*                  child and cleanup(), with weak fairness of the thread  *)
(*   SpecTimers     the debounce timers of one engine and the idle-sweep   *)
(*                  tasks of the supervisor                                *)
(*   SpecCommand    sessions created with extra arguments, then restarted  *)
(*   SpecRebind     a terminal connection across the deletion or restart   *)
(*                  of its session                                         *)
(***************************************************************************)
EXTENDS Integers, Sequences, FiniteSets, TLC

None == "None"

(***************************************************************************)
(* Bounds of the model.  buffer_max_size and ReadSize are the program's    *)
(* 500000 (pty_session.py:49) and 4096 (pty_session.py:129) scaled down,   *)
(* keeping ReadSize <= buffer_max_size as in the program.                  *)
(***************************************************************************)
buffer_max_size == 3
ReadSize == 2
MaxChunks == 3
\* PTYSession objects constructed in one run of SpecSession
MaxEngines == 2
\* VSCodeManager.MAX_INSTANCES (10, vscode_manager.py:44) and IDLE_TIMEOUT
\* (30 * 60 seconds, vscode_manager.py:45) scaled down; time.time() is a
\* clock of whole ticks that stops at MaxTime
MAX_INSTANCES == 2
IDLE_TIMEOUT == 1
MaxTime == 2
BASE_PORT == 8766
\* the notifier: the rolling buffer's 2048 bytes (pty_session.py:175) scaled
\* down, the chunks one run feeds it, and the ticks its clock runs for
NotifyBufferMax == 14
MaxOutputs == 3
MaxTicks == 5
\* threading.Timer(2.0, ...), _notification_cooldown = 3, len(clean_text) < 5
DebounceDelay == 2
notification_cooldown == 3
MinCleanLen == 5
\* frames forwarded through the tunnel in each direction
MaxFrames == 2
\* the Timer objects one engine creates and the tasks the supervisor creates
MaxTimers == 3
MaxTasks == 3

\* the two websocket connections of the model (the spec's C1 and C2)
ConnIds == {1, 2}

VARIABLES
    \* ---- PTYSession (one engine) and its websocket clients
    output_buffer,   \* PTYSession.output_buffer: list of chunks
    clients,         \* PTYSession.clients: the registered client ids
    broadcastLog,    \* history variable: every chunk given to _broadcast_output
    loopReady,       \* event loop's ready callbacks from call_soon_threadsafe
    conn,            \* per websocket connection: pc, history, output_queue, frames sent
    \* ---- SessionManager and the PTYSession objects it constructed
    sessions,        \* SessionManager._sessions: name -> PTYSession object
    default_session, \* SessionManager._default_session
    engines,         \* the PTYSession objects, in order of construction
    gocRet,          \* outcome of the latest get_or_create_session call
    firstCall,       \* per name: first call that returned since the name was last deleted
    forksFor,        \* per name: child processes started since then
    lastWrite,       \* outcome of the latest PTYSession.write call
    \* ---- VSCodeManager, proxy and tunnel
    instances,       \* VSCodeManager._instances: session id -> VSCodeInstance
    now,             \* time.time()
    tunnel,          \* per session id: a websocket tunnel to the backend is open
    vsRet,           \* the latest supervisor, proxy or tunnel operation and its outcome
    processes,       \* history variable: per session id, the code-server processes running
    \* ---- the idle-output notifier of one PTYSession
    ntfy_topic,            \* PTYSession.ntfy_topic
    notification_buffer,   \* PTYSession._notification_buffer
    last_output_time,      \* PTYSession._last_output_time
    notification_timer,    \* PTYSession._notification_timer: pending or not, and armed when
    last_notification_time,\* PTYSession._last_notification_time
    clock,                 \* time.time() as the notifier's threads read it
    inflight,              \* _check_and_notify calls inside _send_notification: their `now`
    sendLog,               \* history variable: the notifications sent, and when
    outputs,               \* history variable: chunks given to the notifier so far
    \* ---- authentication and the reverse proxy's HTTP and upgrade handlers
    PASSWORD,        \* main.PASSWORD: TRUE when a password is configured
    auth_tokens,     \* main.auth_tokens
    issued,          \* history variable: every token generate_token has returned
    proxyRet,        \* the latest login, logout, proxy request or upgrade and its outcome
    redirect,        \* the latest proxied response: its location header, in and out
    \* ---- terminal connections to the engines of the SessionManager
    term,            \* per terminal websocket: pc, the id it asked for, its engine, the
                     \* frames sent to it, the engines whose chunks it received
    engine_clients,  \* per PTYSession object: the ids in its clients map
    wrote,           \* history variable: connections whose input reached PTYSession.write
    termRet,         \* what the receive loop did with the latest frame
    \* ---- the server process
    serving,         \* FALSE once the lifespan's shutdown half has run
    \* ---- one websocket tunnel and its two forwarding loops
    relay,           \* the handler, both loops, both peers, the client-facing socket
    \* ---- a timer thread of the notifier followed line by line
    sender,          \* its position in _check_and_notify and _send_notification
    \* ---- the reader thread of the engine whose sinks can raise
    reader,          \* running, and the clients whose sink raised in the latest broadcast
    \* ---- two requests whose handlers call get_or_create_session
    callers,         \* per request: its position in the call, its arguments, its result
    \* ---- one engine's reader thread followed line by line, its child, cleanup()
    rl,              \* the thread's position, running, master_fd, the child, the history
    \* ---- every debounce timer of one engine, every sweep task of the supervisor
    debounce,        \* the threading.Timer objects created, _notification_timer, the topic
    sweep            \* the asyncio tasks created, VSCodeManager._cleanup_task

ptyVars == <<output_buffer, clients, broadcastLog, loopReady, conn>>
sessionVars == <<sessions, default_session, engines, gocRet, firstCall,
                 forksFor, lastWrite>>
vscodeVars == <<instances, now, tunnel, vsRet, processes>>
notifyVars == <<ntfy_topic, notification_buffer, last_output_time, notification_timer,
                last_notification_time, clock, inflight, sendLog, outputs>>
proxyVars == <<PASSWORD, auth_tokens, issued, proxyRet, redirect>>
termVars == <<term, engine_clients, wrote, termRet>>
lifeVars == <<serving>>
relayVars == <<relay>>
senderVars == <<sender>>
readerVars == <<reader>>
callerVars == <<callers>>
loopVars == <<rl>>
timerVars == <<debounce, sweep>>
vars == <<ptyVars, sessionVars, vscodeVars, notifyVars, proxyVars, termVars, lifeVars,
          relayVars, senderVars, readerVars, callerVars, loopVars, timerVars>>
\* what the actions of one subsystem leave alone
notPtyVars ==
    <<sessionVars, vscodeVars, notifyVars, proxyVars, termVars, lifeVars, relayVars,
      senderVars, readerVars, callerVars, loopVars, timerVars>>
notSessionVars ==
    <<ptyVars, vscodeVars, notifyVars, proxyVars, termVars, lifeVars, relayVars,
      senderVars, readerVars, callerVars, loopVars, timerVars>>
notVscodeVars ==
    <<ptyVars, sessionVars, notifyVars, proxyVars, termVars, lifeVars, relayVars,
      senderVars, readerVars, callerVars, loopVars, timerVars>>
notNotifyVars ==
    <<ptyVars, sessionVars, vscodeVars, proxyVars, termVars, lifeVars, relayVars,
      senderVars, readerVars, callerVars, loopVars, timerVars>>
notProxyVars ==
    <<ptyVars, sessionVars, notifyVars, termVars, lifeVars, relayVars,
      senderVars, readerVars, callerVars, loopVars, timerVars>>
notTermVars ==
    <<ptyVars, vscodeVars, notifyVars, proxyVars, lifeVars, relayVars,
      senderVars, readerVars, callerVars, loopVars, timerVars>>
notSenderVars ==
    <<ptyVars, sessionVars, vscodeVars, proxyVars, termVars, lifeVars, relayVars,
      readerVars, callerVars, loopVars, timerVars>>
notReaderVars ==
    <<sessionVars, vscodeVars, notifyVars, proxyVars, termVars, lifeVars, relayVars,
      senderVars, callerVars, loopVars, timerVars>>
notCallerVars ==
    <<ptyVars, vscodeVars, notifyVars, proxyVars, termVars, lifeVars, relayVars,
      senderVars, readerVars, loopVars, timerVars>>
notLoopVars ==
    <<ptyVars, sessionVars, vscodeVars, notifyVars, proxyVars, termVars, lifeVars,
      relayVars, senderVars, readerVars, callerVars, timerVars>>
notTimerVars ==
    <<ptyVars, sessionVars, vscodeVars, notifyVars, proxyVars, termVars, lifeVars,
      relayVars, senderVars, readerVars, callerVars, loopVars>>
notRelayVars ==
    <<ptyVars, sessionVars, notifyVars, proxyVars, termVars, lifeVars, senderVars,
      readerVars, callerVars, loopVars, timerVars>>
notLifeVars ==
    <<ptyVars, notifyVars, proxyVars, termVars, relayVars,
      senderVars, readerVars, callerVars, loopVars, timerVars>>

(***************************************************************************)
(* Bytes.  A byte of the PTY stream is modelled by its position in the     *)
(* stream, so every chunk is distinct and a duplicate or a gap shows.      *)
(***************************************************************************)
RECURSIVE TotalSize(_)
\* sum(len(b) for b in self.output_buffer)
TotalSize(buf) ==
    IF buf = <<>> THEN 0 ELSE Len(Head(buf)) + TotalSize(Tail(buf))

RECURSIVE Join(_)
\* b"".join(self.output_buffer)
Join(buf) ==
    IF buf = <<>> THEN <<>> ELSE Head(buf) \o Join(Tail(buf))

\* the chunk of n bytes that follows the bytes broadcast so far
NextChunk(n) ==
    LET base == TotalSize(broadcastLog) IN [i \in 1..n |-> base + i]

\* Mutant of Trim: the eviction loop is skipped.
TrimNever(buf) == buf

\* Mutant of Trim: the loop evicts while total_size >= buffer_max_size.
RECURSIVE TrimEager(_)
TrimEager(buf) ==
    IF TotalSize(buf) >= buffer_max_size /\ buf # <<>>
    THEN TrimEager(Tail(buf))
    ELSE buf

RECURSIVE Trim(_)
\* while total_size > self.buffer_max_size and self.output_buffer: pop(0)
Trim(buf) ==
    IF TotalSize(buf) > buffer_max_size /\ buf # <<>>
    THEN Trim(Tail(buf))
    ELSE buf

\* for client in list(self.clients.values()): client.send_callback(data)
\* where send_callback is on_output: loop.call_soon_threadsafe(put_nowait, data)
Fanout(ready, cl, data) ==
    LET RECURSIVE Push(_, _)
        Push(r, left) ==
            IF left = {} THEN r
            ELSE LET c == CHOOSE x \in left : \A y \in left : x <= y
                 IN Push(Append(r, [conn |-> c, data |-> data]), left \ {c})
    IN Push(ready, cl)

\* Mutant of SinkErrorCaught: an exception of a sink leaves the loop.
SinkErrorEscapes == FALSE

\* _broadcast_output, lines 160-163: try: client.send_callback(data)
\* except Exception; on_output catches its own call_soon_threadsafe as well
SinkErrorCaught == TRUE

\* for client in list(self.clients.values()), with the sinks in failing
\* raising instead of handing the chunk to the event loop: the callbacks
\* made ready, and whether an exception left the loop
FanoutFailing(ready, cl, data, failing) ==
    LET RECURSIVE Push(_, _)
        Push(r, left) ==
            IF left = {} THEN [ready |-> r, escaped |-> FALSE]
            ELSE LET c == CHOOSE x \in left : \A y \in left : x <= y
                 IN IF c \in failing
                    THEN (IF SinkErrorCaught THEN Push(r, left \ {c})
                          ELSE [ready |-> r, escaped |-> TRUE])
                    ELSE Push(Append(r, [conn |-> c, data |-> data]), left \ {c})
    IN Push(ready, cl)

\* a started engine: start() has set running, master_fd is open, the reader
\* thread is about to test its loop condition, the child runs
InitLoop == [pc |-> "while", running |-> TRUE, master_fd |-> "open", child |-> "alive",
             pending |-> 0, written |-> 0, sent |-> 0, cleanup |-> "idle",
             eof |-> FALSE, err |-> FALSE, marked |-> FALSE]

\* the requests followed through get_or_create_session
CallerIds == {1, 2}
IdleCaller == [pc |-> "idle", name |-> "", dir |-> "", fresh |-> FALSE, need |-> FALSE,
               ret |-> 0]

\* PTYSession._broadcast_output, the part under self._lock
BroadcastOutput(data) ==
    /\ output_buffer' = Trim(Append(output_buffer, data))
    /\ loopReady' = Fanout(loopReady, clients, data)
    /\ broadcastLog' = Append(broadcastLog, data)

\* Mutant of AddClientHistory: the snapshot misses the newest chunk.
AddClientHistoryStale(buf) ==
    IF buf = <<>> THEN <<>> ELSE Join(SubSeq(buf, 1, Len(buf) - 1))

\* PTYSession.add_client: return b"".join(self.output_buffer)
AddClientHistory(buf) == Join(buf)

(***************************************************************************)
(* SessionManager and PTYSession life cycle                                *)
(***************************************************************************)
SessionNames == {"x", "y"}
Dirs == {"dirA", "dirB"}
\* argument vectors; <<>> is a call that gives no command (None)
Commands == {<<>>, <<"claude">>, <<"claude", "--resume">>}

\* PTYSession.__init__: self.command = command or ["claude"]
CommandOr(cmd) == IF cmd = <<>> THEN <<"claude">> ELSE cmd

\* PTYSession.__init__
NewEngine(dir, cmd) ==
    [working_dir |-> dir, command |-> CommandOr(cmd), running |-> FALSE,
     master_fd |-> None, pid |-> None, reader |-> "none", cleaned |-> FALSE,
     ntfy_topic |-> None, child |-> "none", produced |-> 0]

\* PTYSession.start, parent side: the pty is open, the child forked, the reader
\* runs; the child has entered the directory and executed the command
Started(e) ==
    [e EXCEPT !.running = TRUE, !.master_fd = "fd", !.pid = "pid",
              !.reader = "loop", !.child = "exec"]

\* PTYSession.start when os.chdir or os.execvpe raises in the child: the
\* exception is caught in the child, which runs cleanup() on its copy and
\* returns False there; the parent has taken the else branch as ever
StartedChildFailed(e) == [Started(e) EXCEPT !.child = "failed"]

\* Mutant of CleanedUp: the engine is only marked as cleaned up.
CleanedUpInNameOnly(e) == [e EXCEPT !.cleaned = TRUE]

\* PTYSession.cleanup
CleanedUp(e) ==
    [e EXCEPT !.running = FALSE, !.master_fd = None, !.pid = None, !.cleaned = TRUE]

\* a dict with key k set to v
Put(d, k, v) == [x \in DOMAIN d \cup {k} |-> IF x = k THEN v ELSE d[x]]

\* a dict without key k
Drop(d, k) == [x \in DOMAIN d \ {k} |-> d[x]]

(***************************************************************************)
(* VSCodeManager                                                           *)
(***************************************************************************)
\* the session ids asking for a code-server: one more than MAX_INSTANCES
VsIds == {1, 2, 3}

PortRange == BASE_PORT..(BASE_PORT + MAX_INSTANCES - 1)

\* VSCodeInstance.is_running: process.poll() is None
IsRunning(inst) == inst.alive

\* Mutant of HasLive: no instance is ever found.
HasNone(insts, sid) == FALSE

\* Mutant of HasLive: a record is enough, its process is not polled.
HasRecord(insts, sid) == sid \in DOMAIN insts

\* VSCodeManager.get_instance(sid) is not None
HasLive(insts, sid) == IF sid \in DOMAIN insts THEN IsRunning(insts[sid]) ELSE FALSE

\* _find_available_port: the ports of the range no recorded instance holds
FreePorts(insts) == {p \in PortRange : \A s \in DOMAIN insts : insts[s].port # p}

\* Mutant of FindAvailablePort: the port is derived from the number of records.
FindAvailablePortByCount(insts) == BASE_PORT + (Cardinality(DOMAIN insts) % MAX_INSTANCES)

\* _find_available_port: the first port of the range that is not in used_ports
FindAvailablePort(insts) ==
    CHOOSE p \in FreePorts(insts) : \A q \in FreePorts(insts) : p <= q

\* VSCodeInstance.idle_seconds
IdleSeconds(inst, t) == t - inst.last_activity

\* Mutant of IsIdle: the comparison is >=.
IsIdleAtTimeout(inst, t) == IdleSeconds(inst, t) >= IDLE_TIMEOUT

\* cleanup_idle: instance.idle_seconds() > self.IDLE_TIMEOUT
IsIdle(inst, t) == IdleSeconds(inst, t) > IDLE_TIMEOUT

\* VSCodeInstance.touch
Touch(inst, t) == [inst EXCEPT !.last_activity = t]

\* the record of an operation: what it was, on which id, how it ended
VsOutcome(op, sid, result) ==
    [op |-> op, sid |-> sid, result |-> result, lookup |-> FALSE, launched |-> FALSE,
     stopped |-> {}]

\* Mutant of StartSteps: the binary is looked up before a port is searched.
StartStepsLookupFirst(exhausted, found) ==
    IF ~found THEN [result |-> "FileNotFoundError", lookup |-> TRUE, launched |-> FALSE]
    ELSE IF exhausted THEN [result |-> "RuntimeError", lookup |-> TRUE, launched |-> FALSE]
    ELSE [result |-> "started", lookup |-> TRUE, launched |-> TRUE]

\* VSCodeManager.start past the live-instance test: the port search raises
\* RuntimeError, else the binary lookup raises FileNotFoundError, else Popen
StartSteps(exhausted, found) ==
    IF exhausted THEN [result |-> "RuntimeError", lookup |-> FALSE, launched |-> FALSE]
    ELSE IF ~found THEN [result |-> "FileNotFoundError", lookup |-> TRUE, launched |-> FALSE]
    ELSE [result |-> "started", lookup |-> TRUE, launched |-> TRUE]

(***************************************************************************)
(* The notifier's text.  The rolling buffer is a sequence of bytes, each a *)
(* one-character string; ESC, BEL, LF stand for \x1b, \x07, \n and xFF for *)
(* a byte that is not valid UTF-8.                                         *)
(***************************************************************************)
ESC == "ESC"
BEL == "BEL"
LF == "LF"
BadByte == "xFF"

UpperToLower ==
    [A |-> "a", B |-> "b", C |-> "c", D |-> "d", E |-> "e", F |-> "f", G |-> "g",
     H |-> "h", I |-> "i", J |-> "j", K |-> "k", L |-> "l", M |-> "m", N |-> "n",
     O |-> "o", P |-> "p", Q |-> "q", R |-> "r", S |-> "s", T |-> "t", U |-> "u",
     V |-> "v", W |-> "w", X |-> "x", Y |-> "y", Z |-> "z"]

\* [a-zA-Z]
Letters == DOMAIN UpperToLower \cup {UpperToLower[u] : u \in DOMAIN UpperToLower}

\* [0-9;]
CsiParams == {"0", "1", "2", "3", "4", "5", "6", "7", "8", "9", ";"}

\* [\x00-\x1f\x7f]
ControlChars == {ESC, BEL, LF}

\* re.IGNORECASE, on one character
Lower(ch) == IF ch \in DOMAIN UpperToLower THEN UpperToLower[ch] ELSE ch

\* bytes.decode('utf-8', errors='ignore'): invalid bytes are dropped
Decode(bytes) == SelectSeq(bytes, LAMBDA b : b # BadByte)

\* length of the match of \x1b\[[0-9;]*[a-zA-Z] at the head of t, 0 if none
CsiMatchLen(t) ==
    IF Len(t) >= 3 /\ t[1] = ESC /\ t[2] = "["
    THEN LET j == CHOOSE i \in 3..(Len(t) + 1) :
                      /\ \A k \in 3..(i - 1) : t[k] \in CsiParams
                      /\ IF i <= Len(t) THEN t[i] \notin CsiParams ELSE TRUE
         IN IF j <= Len(t) /\ t[j] \in Letters THEN j ELSE 0
    ELSE 0

\* length of the match of \x1b\][^\x07]*\x07 at the head of t, 0 if none
OscMatchLen(t) ==
    IF Len(t) >= 3 /\ t[1] = ESC /\ t[2] = "]" /\ \E k \in 3..Len(t) : t[k] = BEL
    THEN CHOOSE k \in 3..Len(t) : t[k] = BEL /\ \A m \in 3..(k - 1) : t[m] # BEL
    ELSE 0

RECURSIVE RemoveCsi(_)
\* re.sub(r'\x1b\[[0-9;]*[a-zA-Z]', '', text)
RemoveCsi(t) ==
    IF t = <<>> THEN <<>>
    ELSE IF CsiMatchLen(t) > 0 THEN RemoveCsi(SubSeq(t, CsiMatchLen(t) + 1, Len(t)))
    ELSE <<Head(t)>> \o RemoveCsi(Tail(t))

RECURSIVE RemoveOsc(_)
\* re.sub(r'\x1b\][^\x07]*\x07', '', clean_text)
RemoveOsc(t) ==
    IF t = <<>> THEN <<>>
    ELSE IF OscMatchLen(t) > 0 THEN RemoveOsc(SubSeq(t, OscMatchLen(t) + 1, Len(t)))
    ELSE <<Head(t)>> \o RemoveOsc(Tail(t))

\* re.sub(r'[\x00-\x1f\x7f]', ' ', clean_text)
ControlToSpace(t) == [i \in 1..Len(t) |-> IF t[i] \in ControlChars THEN " " ELSE t[i]]

RECURSIVE CollapseSpaces(_)
\* re.sub(r'\s+', ' ', clean_text)
CollapseSpaces(t) ==
    IF Len(t) < 2 THEN t
    ELSE IF t[1] = " " /\ t[2] = " " THEN CollapseSpaces(Tail(t))
    ELSE <<Head(t)>> \o CollapseSpaces(Tail(t))

\* str.strip() of a text whose runs of whitespace are single spaces
Strip(t) ==
    LET a == IF t # <<>> /\ Head(t) = " " THEN Tail(t) ELSE t
    IN IF a # <<>> /\ a[Len(a)] = " " THEN SubSeq(a, 1, Len(a) - 1) ELSE a

\* _check_and_notify, lines 202-211: the rolling buffer decoded and cleaned
CleanText(bytes) ==
    Strip(CollapseSpaces(ControlToSpace(RemoveOsc(RemoveCsi(Decode(bytes))))))

\* the literal lit matches at position i of text, ignoring case
MatchAt(text, i, lit) ==
    /\ i + Len(lit) - 1 <= Len(text)
    /\ \A k \in 1..Len(lit) : Lower(text[i + k - 1]) = Lower(lit[k])

\* re.search of a pattern of waiting_patterns in the cleaned text:
\*   "question_end"  \?\s*$        "literal"  the escaped literal
\*   "then_colon"    the literal, then .* and a colon
Matches(p, text) ==
    IF p.kind = "question_end"
    THEN \E i \in 1..Len(text) :
             text[i] = "?" /\ \A j \in (i + 1)..Len(text) : text[j] = " "
    ELSE IF p.kind = "literal"
    THEN \E i \in 1..Len(text) : MatchAt(text, i, p.lit)
    ELSE \E i \in 1..Len(text) :
             /\ MatchAt(text, i, p.lit)
             /\ \E j \in (i + Len(p.lit))..Len(text) : text[j] = ":"

\* _check_and_notify, lines 218-227
waiting_patterns ==
    << [kind |-> "question_end", lit |-> <<>>,
        msg |-> "Claude is asking a question"],
       [kind |-> "literal", lit |-> <<"[", "Y", "/", "n", "]">>,
        msg |-> "Claude needs confirmation"],
       [kind |-> "literal", lit |-> <<"(", "y", "/", "n", ")">>,
        msg |-> "Claude needs confirmation"],
       [kind |-> "literal", lit |-> <<"p", "r", "o", "c", "e", "e", "d", "?">>,
        msg |-> "Claude is asking to proceed"],
       [kind |-> "literal", lit |-> <<"c", "o", "n", "t", "i", "n", "u", "e", "?">>,
        msg |-> "Claude is asking to continue"],
       [kind |-> "then_colon", lit |-> <<"s", "e", "l", "e", "c", "t">>,
        msg |-> "Claude is waiting for selection"],
       [kind |-> "then_colon", lit |-> <<"c", "h", "o", "o", "s", "e">>,
        msg |-> "Claude is waiting for your choice"],
       [kind |-> "then_colon", lit |-> <<"e", "n", "t", "e", "r">>,
        msg |-> "Claude is waiting for input"] >>

GenericMessage == "Claude has an update"

\* the patterns that match a cleaned text, by their place in the list
MatchingPatterns(text) ==
    {i \in 1..Len(waiting_patterns) : Matches(waiting_patterns[i], text)}

\* Mutant of Classify: the loop has no break, the last matching pattern wins.
ClassifyLastMatch(text) ==
    LET m == MatchingPatterns(text) IN
    IF m = {} THEN GenericMessage
    ELSE waiting_patterns[CHOOSE i \in m : \A j \in m : j <= i].msg

RECURSIVE ClassifyFrom(_, _)
\* the for loop of lines 231-234 from pattern i on: the first match, then break
ClassifyFrom(i, text) ==
    IF i > Len(waiting_patterns) THEN GenericMessage
    ELSE IF Matches(waiting_patterns[i], text) THEN waiting_patterns[i].msg
    ELSE ClassifyFrom(i + 1, text)

\* _check_and_notify, lines 229-234
Classify(text) == ClassifyFrom(1, text)

\* self._notification_buffer[-NotifyBufferMax:] when it is longer than that
KeepLast(bytes) ==
    IF Len(bytes) > NotifyBufferMax
    THEN SubSeq(bytes, Len(bytes) - NotifyBufferMax + 1, Len(bytes))
    ELSE bytes

\* the chunks the child writes in the model: coloured short text, two
\* prompts, a plain line, and a prompt with an undecodable byte in it
OutputChunks ==
    { <<ESC, "[", "1", "m", "o", "k">>,
      <<"P", "r", "o", "c", "e", "e", "d", "?", " ">>,
      <<"[", "Y", "/", "n", "]", " ">>,
      <<"d", "o", "n", "e", ".", LF>>,
      <<"S", "e", "l", "e", "c", "t", BadByte, ":">> }

\* what a caller of set_ntfy_topic passes
Topics == {"", "alerts"}

(***************************************************************************)
(* Authentication and the reverse proxy (main.py)                          *)
(***************************************************************************)
\* the token generate_token returns in the model, and the tokens a request
\* can carry: that one, or one that login never issued
TokenIds == {"t1"}
CarriedTokens == TokenIds \cup {"forged"}

\* the session ids that have a code-server started behind the proxy, and
\* the one the requests and upgrades of the model are made for
ProxyIds == {1, 2}
RequestIds == {1}

\* Mutant of VerifyToken: a token stays valid after logout.
VerifyTokenIssued(token) ==
    IF ~PASSWORD THEN TRUE
    ELSE IF token = None THEN FALSE
    ELSE token \in issued

\* main.verify_token
VerifyToken(token) ==
    IF ~PASSWORD THEN TRUE
    ELSE IF token = None THEN FALSE
    ELSE token \in auth_tokens

\* query_params.get(key): the value of the first pair with that key
QueryGet(query, key) ==
    IF \E i \in 1..Len(query) : query[i][1] = key
    THEN query[CHOOSE i \in 1..Len(query) :
                   /\ query[i][1] = key
                   /\ \A j \in 1..(i - 1) : query[j][1] # key][2]
    ELSE None

\* vscode_proxy, line 545: the cookie, or else the query parameter
HttpToken(req) ==
    IF req.cookie # None THEN req.cookie ELSE QueryGet(req.query, "token")

\* vscode_websocket_proxy, line 568: the query parameter only
WsToken(req) == QueryGet(req.query, "token")

\* f"http://127.0.0.1:{instance.port}/{path}" and "?{query_params}" when
\* there are any (lines 493-495, 582-584)
TargetUrl(scheme, port, path, query) ==
    [scheme |-> scheme, host |-> "127.0.0.1", port |-> port, path |-> path,
     query |-> query]

\* the requests of the model: a session id, a sub-path, a query string as
\* its key-value pairs, and the teleclaude_token cookie
Requests ==
    {[sid |-> sid, path |-> pq[1], query |-> pq[2], cookie |-> cookie] :
        sid \in RequestIds,
        pq \in {<<"", <<>>>>} \cup
               {<<"app.js", << <<"token", t>>, <<"folder", "w">> >> >> :
                    t \in CarriedTokens},
        cookie \in CarriedTokens \cup {None}}

\* the record of a handler's run: which one, how it answered, whether it
\* looked the instance up, and the URL it forwarded to or connected to
ProxyOutcome(kind, status) ==
    [kind |-> kind, status |-> status, lookup |-> FALSE, target |-> None]

(***************************************************************************)
(* The location header of a proxied response.  A URL is a sequence of      *)
(* pieces of text: "http://127.0.0.1:" is one piece, every digit of a port *)
(* is a piece of its own, so that a prefix of pieces is a prefix of text.  *)
(***************************************************************************)
DigitChars == <<"0", "1", "2", "3", "4", "5", "6", "7", "8", "9">>

RECURSIVE Digits(_)
\* the decimal text of a number, as in f"{instance.port}"
Digits(n) ==
    IF n < 10 THEN <<DigitChars[n + 1]>>
    ELSE Digits(n \div 10) \o <<DigitChars[(n % 10) + 1]>>

\* f"http://127.0.0.1:{instance.port}"
Origin(port) == <<"http://127.0.0.1:">> \o Digits(port)

\* f"/vscode/{session_id}"
PublicPrefix(sid) == <<"/vscode/">> \o Digits(sid)

\* str.startswith
StartsWith(text, prefix) ==
    Len(prefix) <= Len(text) /\ SubSeq(text, 1, Len(prefix)) = prefix

RECURSIVE Replace(_, _, _)
\* str.replace(old, new): every occurrence, left to right
Replace(text, old, new) ==
    IF text = <<>> THEN <<>>
    ELSE IF StartsWith(text, old)
    THEN new \o Replace(SubSeq(text, Len(old) + 1, Len(text)), old, new)
    ELSE <<Head(text)>> \o Replace(Tail(text), old, new)

\* proxy_to_vscode, lines 515-523: the location header sent to the client
RewriteLocation(location, port, sid) ==
    IF StartsWith(location, Origin(port))
    THEN Replace(location, Origin(port), PublicPrefix(sid))
    ELSE location

\* the location headers a backend on the given port answers with: the
\* backend's own origin, a port with one more digit, the next port, the
\* origin as user information of another host, another site, a relative
\* reference; each alone, with a path, and with a query naming the origin
Locations(port) ==
    {head \o tail :
        head \in {Origin(port), Origin(port) \o <<"0">>, Origin(port + 1),
                  Origin(port) \o <<"@evil.example">>, <<"https://example.com">>,
                  <<>>},
        tail \in {<<>>, <<"/", "x">>,
                  <<"/", "login", "?to=">> \o Origin(port) \o <<"/", "x">>}}

(***************************************************************************)
(* Terminal websocket (main.websocket_terminal)                            *)
(***************************************************************************)
\* the terminal websockets of the model
TermIds == {1}

\* main.SESSION_NAME (the value of TELECLAUDE_SESSION): one of the session names
SESSION_NAME == "x"

\* the PTYSession objects a run can construct
EngineSlots == 1..MaxEngines

\* Mutant of ResolveSession: a named session that is missing falls back to
\* the default session as well.
ResolveSessionOrDefault(session_id) ==
    LET sid == IF session_id # None THEN session_id ELSE SESSION_NAME IN
    IF sid \in DOMAIN sessions THEN sessions[sid]
    ELSE IF default_session # None /\ default_session \in DOMAIN sessions
    THEN sessions[default_session]
    ELSE 0

\* websocket_terminal, lines 304-317: the PTYSession the connection is for,
\* 0 when there is none.  Only a connection that names no session falls
\* back to the default session.
ResolveSession(session_id) ==
    LET sid == IF session_id # None THEN session_id ELSE SESSION_NAME IN
    IF sid \in DOMAIN sessions THEN sessions[sid]
    ELSE IF session_id = None /\ default_session # None
    THEN (IF default_session \in DOMAIN sessions THEN sessions[default_session] ELSE 0)
    ELSE 0

\* Mutant of Refusal: a session that is not running is not refused.
RefusalMissingOnly(e) ==
    IF e = 0 THEN "Session not found" ELSE None

\* websocket_terminal, lines 319-327: the error the connection is refused
\* with, None when it is not refused
Refusal(e) ==
    IF e = 0 THEN "Session not found"
    ELSE IF ~engines[e].running THEN "Session not running"
    ELSE None

\* the text frames a client sends, each with what json.loads makes of it:
\* a JSONDecodeError, a value that is not an object, or an object with its
\* "type" and the kind of its "data"
TextFrames ==
    { [text |-> "ls", json |-> "invalid", type |-> None, data |-> None],
      [text |-> "123", json |-> "number", type |-> None, data |-> None],
      [text |-> "\"ls\"", json |-> "string", type |-> None, data |-> None],
      [text |-> "[1]", json |-> "list", type |-> None, data |-> None],
      [text |-> "{}", json |-> "object", type |-> None, data |-> None],
      [text |-> "{type:ping}", json |-> "object", type |-> "ping", data |-> None],
      [text |-> "{type:input,data:5}", json |-> "object", type |-> "input",
       data |-> "number"],
      [text |-> "{type:input,data:ls}", json |-> "object", type |-> "input",
       data |-> "string"],
      [text |-> "{type:resize,rows:30,cols:100}", json |-> "object",
       type |-> "resize", data |-> None] }

\* the receive loop's handling of one text frame, lines 387-397: what it
\* calls, or the exception that leaves the loop
HandleText(f) ==
    IF f.json = "invalid" THEN [act |-> "write", data |-> f.text]
    ELSE IF f.json # "object" THEN [act |-> "raise", data |-> "AttributeError"]
    ELSE IF f.type = "resize" THEN [act |-> "resize", data |-> f.text]
    ELSE IF f.type = "input"
    THEN (IF f.data = "string" THEN [act |-> "write", data |-> "ls"]
          ELSE IF f.data = None THEN [act |-> "write", data |-> ""]
          ELSE [act |-> "raise", data |-> "AttributeError"])
    ELSE [act |-> "none", data |-> ""]

InitTerm == [pc |-> "new", asked |-> None, engine |-> 0, frames |-> <<>>,
             chunks |-> {}]

\* no timer thread is running: pc is its position, message and text what
\* _check_and_notify computed, at the clock it read, topic the topic the
\* request was built for
InitSender == [pc |-> "idle", message |-> "", text |-> <<>>, at |-> 0, topic |-> None]

\* the session whose tunnel is followed
RelayId == 1

\* no upgrade request yet: handler is the position of vscode_websocket_proxy,
\* up and down those of forward_to_target and forward_from_target, client and
\* backend the two peers, seen whether receive() has returned the client's
\* disconnect message, sock the client-facing connection as the server
\* leaves it, upCount and downCount the frames forwarded each way
InitRelay ==
    [handler |-> "none", up |-> "none", down |-> "none", client |-> "open",
     seen |-> FALSE, backend |-> "none", sock |-> "connecting",
     upCount |-> 0, downCount |-> 0]

\* main.WORKING_DIR (the value of TELECLAUDE_WORKDIR): one of the directories
WORKING_DIR == "dirA"

\* set_ntfy_topic and get_ntfy_topic, lines 246-249: the PTYSession the
\* request acts on, 0 when there is none.  The default session stands in
\* for any id that is not registered.
TopicSession(session_id) ==
    LET sid == IF session_id # None THEN session_id ELSE SESSION_NAME IN
    IF sid \in DOMAIN sessions THEN sessions[sid]
    ELSE IF default_session # None
    THEN (IF default_session \in DOMAIN sessions THEN sessions[default_session] ELSE 0)
    ELSE 0

\* the key of VSCodeManager._instances that a session id is: the same string
\* in the program, the instance id standing for it in the model
VsKey == [n \in SessionNames |-> IF n = "x" THEN 1 ELSE 2]

InitConn ==
    [pc |->"new", history |-> <<>>, queue |-> <<>>, sent |-> <<>>, regAt |-> 0]

InitCommon ==
    /\ output_buffer = <<>>
    /\ clients = {}
    /\ broadcastLog = <<>>
    /\ loopReady = <<>>
    /\ conn = [c \in ConnIds |-> InitConn]
    /\ sessions = <<>>
    /\ default_session = None
    /\ engines = <<>>
    /\ gocRet = [name |-> None, other |-> FALSE, raised |-> FALSE, ret |-> 0]
    /\ firstCall = <<>>
    /\ forksFor = [n \in SessionNames |-> 0]
    /\ lastWrite = [ret |-> FALSE, io |-> FALSE]
    /\ instances = <<>>
    /\ processes = [s \in VsIds |-> 0]
    /\ now = 0
    /\ tunnel = [s \in VsIds |-> FALSE]
    /\ vsRet = VsOutcome("none", 0, "none")
    /\ ntfy_topic = None
    /\ notification_buffer = <<>>
    /\ last_output_time = 0
    /\ notification_timer = [pending |-> FALSE, at |-> 0]
    /\ last_notification_time = 0
    \* time.time() is seconds since the epoch: far more than the cooldown past 0
    /\ clock = notification_cooldown
    /\ inflight = {}
    /\ sendLog = <<>>
    /\ outputs = 0
    /\ auth_tokens = {}
    /\ issued = {}
    /\ proxyRet = ProxyOutcome("none", "none")
    /\ redirect = [port |-> 0, sid |-> 0, present |-> FALSE, location |-> <<>>,
                   out |-> <<>>]
    /\ term = [c \in TermIds |-> InitTerm]
    /\ engine_clients = [e \in EngineSlots |-> {}]
    /\ wrote = {}
    /\ termRet = [act |-> "none", data |-> ""]
    /\ serving = TRUE
    /\ relay = InitRelay
    /\ sender = InitSender
    /\ reader = [running |-> TRUE, failed |-> {}]
    /\ callers = [c \in CallerIds |-> IdleCaller]
    /\ rl = InitLoop
    /\ debounce = [timers |-> <<>>, current |-> 0, pc |-> "idle", topic |-> FALSE]
    /\ sweep = [tasks |-> <<>>, current |-> 0]

\* no password configured: TELECLAUDE_PASSWORD is absent from the environment
Init == InitCommon /\ PASSWORD = FALSE

\* with or without a password configured
InitAuth == InitCommon /\ PASSWORD \in BOOLEAN

----------------------------------------------------------------------------
(***************************************************************************)
(* SpecBroadcast: _broadcast_output as an operation, given chunks of any   *)
(* size from the empty chunk to one byte more than the cap.                *)
(***************************************************************************)
BroadcastAny ==
    /\ Len(broadcastLog) < MaxChunks
    /\ \E n \in 0..(buffer_max_size + 1) : BroadcastOutput(NextChunk(n))
    /\ UNCHANGED <<clients, conn, notPtyVars>>

NextBroadcast == BroadcastAny

SpecBroadcast == Init /\ [][NextBroadcast]_vars

----------------------------------------------------------------------------
(***************************************************************************)
(* Spec: the reader thread (PTYSession._read_loop) against the event loop  *)
(* running websocket_terminal for each connection.                         *)
(***************************************************************************)

\* _read_loop: data = os.read(master_fd, 4096); if data: _broadcast_output(data)
ReaderBroadcast ==
    /\ Len(broadcastLog) < MaxChunks
    /\ \E n \in 1..ReadSize : BroadcastOutput(NextChunk(n))
    /\ UNCHANGED <<clients, conn, notPtyVars>>

\* websocket_terminal: history = session.add_client(client).  With an empty
\* history nothing is awaited before the sender task is created.
WsAttach(c) ==
    /\ conn[c].pc = "new"
    /\ clients' = clients \cup {c}
    /\ LET h == AddClientHistory(output_buffer) IN
       conn' = [conn EXCEPT ![c] =
                  [@ EXCEPT !.pc = IF h = <<>> THEN "attached" ELSE "sending_history",
                            !.history = h,
                            !.regAt = Len(broadcastLog)]]
    /\ UNCHANGED <<output_buffer, broadcastLog, loopReady, notPtyVars>>

\* await websocket.send_bytes(history) completes; sender_task is created
WsSendHistory(c) ==
    /\ conn[c].pc = "sending_history"
    /\ conn' = [conn EXCEPT ![c] =
                  [@ EXCEPT !.pc = "attached", !.sent = Append(@, conn[c].history)]]
    /\ UNCHANGED <<output_buffer, clients, broadcastLog, loopReady, notPtyVars>>

\* await websocket.send_bytes(history) raises: the handler is left before the
\* try/finally that removes the client
WsSendHistoryFails(c) ==
    /\ conn[c].pc = "sending_history"
    /\ conn' = [conn EXCEPT ![c] = [@ EXCEPT !.pc = "closed"]]
    /\ UNCHANGED <<output_buffer, clients, broadcastLog, loopReady, notPtyVars>>

\* the event loop runs the oldest ready callback: output_queue.put_nowait(data)
LoopRunCallback ==
    /\ loopReady # <<>>
    /\ LET cb == Head(loopReady) IN
       conn' = [conn EXCEPT ![cb.conn] = [@ EXCEPT !.queue = Append(@, cb.data)]]
    /\ loopReady' = Tail(loopReady)
    /\ UNCHANGED <<output_buffer, clients, broadcastLog, notPtyVars>>

\* send_output: data = await output_queue.get(); await websocket.send_bytes(data)
SenderSend(c) ==
    /\ conn[c].pc = "attached"
    /\ conn[c].queue # <<>>
    /\ conn' = [conn EXCEPT ![c] =
                  [@ EXCEPT !.queue = Tail(@), !.sent = Append(@, Head(conn[c].queue))]]
    /\ UNCHANGED <<output_buffer, clients, broadcastLog, loopReady, notPtyVars>>

\* the receive loop ends; finally: sender_task.cancel(); session.remove_client(id)
WsDisconnect(c) ==
    /\ conn[c].pc = "attached"
    /\ clients' = clients \ {c}
    /\ conn' = [conn EXCEPT ![c] = [@ EXCEPT !.pc = "closed"]]
    /\ UNCHANGED <<output_buffer, broadcastLog, loopReady, notPtyVars>>

Next ==
    \/ ReaderBroadcast
    \/ \E c \in ConnIds : WsAttach(c)
    \/ \E c \in ConnIds : WsSendHistory(c)
    \/ \E c \in ConnIds : WsSendHistoryFails(c)
    \/ LoopRunCallback
    \/ \E c \in ConnIds : SenderSend(c)
    \/ \E c \in ConnIds : WsDisconnect(c)

Spec == Init /\ [][Next]_vars

----------------------------------------------------------------------------
(***************************************************************************)
(* SpecSession: SessionManager.get_or_create_session and cleanup_session   *)
(* called from the event loop's handlers, the reader thread of each        *)
(* engine leaving its loop, and PTYSession.write called by a client that   *)
(* holds the engine.                                                       *)
(***************************************************************************)
EngineIds == 1..Len(engines)

\* Mutant of NeedsCreate: a registered session that stopped running is replaced.
NeedsCreateIfStopped(name) ==
    IF name \in DOMAIN sessions THEN ~engines[sessions[name]].running ELSE TRUE

\* get_or_create_session: if session_id not in self._sessions
NeedsCreate(name) == name \notin DOMAIN sessions

\* the call gives a directory and a command, and both differ from those of the
\* first call that returned for the name
OtherArgs(name, dir, cmd) ==
    /\ name \in DOMAIN firstCall
    /\ dir # firstCall[name].dir
    /\ cmd # <<>> /\ firstCall[name].cmd # <<>> /\ cmd # firstCall[name].cmd

\* what a returning get_or_create_session call leaves in the history variables
NoteReturn(name, dir, cmd, obj) ==
    /\ gocRet' = [name |-> name, other |-> OtherArgs(name, dir, cmd), raised |-> FALSE,
                  ret |-> obj]
    /\ firstCall' = IF name \in DOMAIN firstCall THEN firstCall
                    ELSE Put(firstCall, name, [dir |-> dir, cmd |-> cmd, ret |-> obj])

\* get_or_create_session on a registered name: return self._sessions[session_id]
GetExisting(name, dir, cmd) ==
    /\ ~NeedsCreate(name)
    /\ NoteReturn(name, dir, cmd, sessions[name])
    /\ UNCHANGED <<sessions, default_session, engines, forksFor, lastWrite>>

\* get_or_create_session on an unregistered name, session.start() returns True
CreateStarted(name, dir, cmd) ==
    /\ NeedsCreate(name)
    /\ Len(engines) < MaxEngines
    /\ LET obj == Len(engines) + 1 IN
       /\ engines' = Append(engines, Started(NewEngine(dir, cmd)))
       /\ sessions' = Put(sessions, name, obj)
       /\ NoteReturn(name, dir, cmd, obj)
    /\ default_session' = IF default_session = None THEN name ELSE default_session
    /\ forksFor' = [forksFor EXCEPT ![name] = @ + 1]
    /\ UNCHANGED lastWrite

\* Mutant of CreateFails: the session is recorded before start() is tested.
CreateFailsRecorded(name, dir, cmd) ==
    /\ NeedsCreate(name)
    /\ Len(engines) < MaxEngines
    /\ engines' = Append(engines, CleanedUp(NewEngine(dir, cmd)))
    /\ sessions' = Put(sessions, name, Len(engines) + 1)
    /\ default_session' = IF default_session = None THEN name ELSE default_session
    /\ gocRet' = [name |-> name, other |-> OtherArgs(name, dir, cmd), raised |-> TRUE,
                  ret |-> 0]
    /\ UNCHANGED <<firstCall, forksFor, lastWrite>>

\* get_or_create_session on an unregistered name, openpty or fork raises:
\* start() runs cleanup() and returns False, RuntimeError is raised.  The
\* object that failed to start is referenced by nobody and is not kept.
CreateFails(name, dir, cmd) ==
    /\ NeedsCreate(name)
    /\ gocRet' = [name |-> name, other |-> OtherArgs(name, dir, cmd), raised |-> TRUE,
                  ret |-> 0]
    /\ UNCHANGED <<sessions, default_session, engines, firstCall, forksFor, lastWrite>>

\* SessionManager.get_or_create_session
GetOrCreateSession(name, dir, cmd) ==
    /\ \/ GetExisting(name, dir, cmd)
       \/ CreateStarted(name, dir, cmd)
       \/ CreateFails(name, dir, cmd)
    /\ UNCHANGED notSessionVars

\* Mutant of CleanupSession: the default pointer is left as it was.
CleanupSessionKeepDefault(name) ==
    /\ name \in DOMAIN sessions
    /\ engines' = [engines EXCEPT ![sessions[name]] = CleanedUp(@)]
    /\ sessions' = Drop(sessions, name)
    /\ firstCall' = Drop(firstCall, name)
    /\ forksFor' = [forksFor EXCEPT ![name] = 0]
    /\ UNCHANGED <<default_session, gocRet, lastWrite, notSessionVars>>

\* SessionManager.cleanup_session
CleanupSession(name) ==
    /\ name \in DOMAIN sessions
    /\ engines' = [engines EXCEPT ![sessions[name]] = CleanedUp(@)]
    /\ sessions' = Drop(sessions, name)
    /\ default_session' = IF default_session = name THEN None ELSE default_session
    /\ firstCall' = Drop(firstCall, name)
    /\ forksFor' = [forksFor EXCEPT ![name] = 0]
    /\ UNCHANGED <<gocRet, lastWrite, notSessionVars>>

\* _read_loop: os.read returns b"" (the child's end of stream): running = False
ReaderEOF(e) ==
    /\ engines[e].reader = "loop"
    /\ engines[e].running /\ engines[e].master_fd # None
    /\ engines' = [engines EXCEPT ![e] = [@ EXCEPT !.running = FALSE, !.reader = "done"]]
    /\ UNCHANGED <<sessions, default_session, gocRet, firstCall, forksFor,
                   lastWrite, notSessionVars>>

\* _read_loop: select or os.read raises; the handler breaks out of the loop and
\* the statement after the loop sets running = False
ReaderError(e) ==
    /\ engines[e].reader = "loop"
    /\ engines' = [engines EXCEPT ![e] = [@ EXCEPT !.running = FALSE, !.reader = "done"]]
    /\ UNCHANGED <<sessions, default_session, gocRet, firstCall, forksFor,
                   lastWrite, notSessionVars>>

\* _read_loop: the loop condition fails after cleanup(); running = False
ReaderLoopExit(e) ==
    /\ engines[e].reader = "loop"
    /\ ~engines[e].running \/ engines[e].master_fd = None
    /\ engines' = [engines EXCEPT ![e] = [@ EXCEPT !.running = FALSE, !.reader = "done"]]
    /\ UNCHANGED <<sessions, default_session, gocRet, firstCall, forksFor,
                   lastWrite, notSessionVars>>

\* Mutant of WriteRefused: only the descriptor is tested.
WriteRefusedNoFd(e) == engines[e].master_fd = None

\* PTYSession.write: if not self.running or self.master_fd is None: return False
WriteRefused(e) == ~engines[e].running \/ engines[e].master_fd = None

\* PTYSession.write, by a client holding engine e: os.write succeeds (True) or
\* raises OSError (False) unless the call is refused before any I/O
Write(e) ==
    /\ IF WriteRefused(e)
       THEN lastWrite' = [ret |-> FALSE, io |-> FALSE]
       ELSE \E ok \in BOOLEAN : lastWrite' = [ret |-> ok, io |-> TRUE]
    /\ UNCHANGED <<sessions, default_session, engines, gocRet, firstCall,
                   forksFor, notSessionVars>>

NextSession ==
    \/ \E n \in SessionNames, d \in Dirs, c \in Commands : GetOrCreateSession(n, d, c)
    \/ \E n \in SessionNames : CleanupSession(n)
    \/ \E e \in EngineIds : ReaderEOF(e)
    \/ \E e \in EngineIds : ReaderError(e)
    \/ \E e \in EngineIds : ReaderLoopExit(e)
    \/ \E e \in EngineIds : Write(e)

SpecSession == Init /\ [][NextSession]_vars

----------------------------------------------------------------------------
(***************************************************************************)
(* SpecVSCode: the supervisor's start, stop and idle sweep, backend        *)
(* processes exiting on their own, time passing, and the proxy and tunnel  *)
(* handlers of main.py that touch an instance.                             *)
(***************************************************************************)

\* VSCodeManager.start(session_id, working_dir)
VsStartIn(sid, dir) ==
    /\ IF HasLive(instances, sid)
       THEN /\ instances' = [instances EXCEPT ![sid] = Touch(@, now)]
            /\ vsRet' = VsOutcome("start", sid, "existing")
            /\ UNCHANGED <<tunnel, processes>>
       ELSE \E found \in BOOLEAN :
              LET st == StartSteps(FreePorts(instances) = {}, found) IN
              /\ vsRet' = [VsOutcome("start", sid, st.result) EXCEPT
                              !.lookup = st.lookup, !.launched = st.launched]
              /\ IF st.launched
                 THEN /\ instances' = Put(instances, sid,
                                          [port |-> FindAvailablePort(instances),
                                           alive |-> TRUE, last_activity |-> now,
                                           working_dir |-> dir])
                      /\ processes' = [processes EXCEPT ![sid] = @ + 1]
                 ELSE UNCHANGED <<instances, processes>>
              /\ UNCHANGED tunnel
    /\ UNCHANGED <<now, notVscodeVars>>

\* VSCodeManager.start for the server's own directory
VsStart(sid) == VsStartIn(sid, WORKING_DIR)

\* what stop() leaves running: the process group of a live instance is killed
Killed(procs, stopped) ==
    [s \in VsIds |-> IF s \in stopped /\ HasLive(instances, s)
                     THEN procs[s] - 1 ELSE procs[s]]

\* VSCodeManager.stop
VsStop(sid) ==
    /\ IF sid \in DOMAIN instances
       THEN /\ instances' = Drop(instances, sid)
            /\ processes' = Killed(processes, {sid})
            /\ tunnel' = [tunnel EXCEPT ![sid] = FALSE]
            /\ vsRet' = VsOutcome("stop", 0, "True")
       ELSE /\ vsRet' = VsOutcome("stop", 0, "False")
            /\ UNCHANGED <<instances, tunnel, processes>>
    /\ UNCHANGED <<now, notVscodeVars>>

\* VSCodeManager.cleanup_idle: stop() for every record that is idle too long
CleanupIdle ==
    LET idle == {s \in DOMAIN instances : IsIdle(instances[s], now)} IN
    /\ instances' = [s \in DOMAIN instances \ idle |-> instances[s]]
    /\ processes' = Killed(processes, idle)
    /\ tunnel' = [s \in VsIds |-> IF s \in idle THEN FALSE ELSE tunnel[s]]
    /\ vsRet' = [VsOutcome("cleanup_idle", 0, "none") EXCEPT !.stopped = idle]
    /\ UNCHANGED <<now, notVscodeVars>>

\* the code-server process of a recorded instance exits on its own; the
\* backend side of its tunnel goes with it
ProcessExit(sid) ==
    /\ HasLive(instances, sid)
    /\ instances' = [instances EXCEPT ![sid] = [@ EXCEPT !.alive = FALSE]]
    /\ processes' = [processes EXCEPT ![sid] = @ - 1]
    /\ tunnel' = [tunnel EXCEPT ![sid] = FALSE]
    /\ UNCHANGED <<now, vsRet, notVscodeVars>>

\* time passes
Tick ==
    /\ now < MaxTime
    /\ now' = now + 1
    /\ UNCHANGED <<instances, tunnel, vsRet, processes, notVscodeVars>>

\* proxy_to_vscode: 503 without a live instance, else touch and forward
ProxyRequest(sid) ==
    /\ IF HasLive(instances, sid)
       THEN /\ instances' = [instances EXCEPT ![sid] = Touch(@, now)]
            /\ vsRet' = VsOutcome("proxy", 0, "forwarded")
       ELSE /\ vsRet' = VsOutcome("proxy", 0, "503")
            /\ UNCHANGED instances
    /\ UNCHANGED <<now, tunnel, processes, notVscodeVars>>

\* vscode_websocket_proxy: close(4004) without a live instance, else accept,
\* touch and connect to the backend
TunnelOpen(sid) ==
    /\ ~tunnel[sid]
    /\ IF HasLive(instances, sid)
       THEN /\ instances' = [instances EXCEPT ![sid] = Touch(@, now)]
            /\ tunnel' = [tunnel EXCEPT ![sid] = TRUE]
            /\ vsRet' = VsOutcome("tunnel", 0, "accepted")
       ELSE /\ vsRet' = VsOutcome("tunnel", 0, "4004")
            /\ UNCHANGED <<instances, tunnel>>
    /\ UNCHANGED <<now, processes, notVscodeVars>>

\* forward_to_target: a client frame is sent on to the backend
TunnelClientMessage(sid) ==
    /\ tunnel[sid]
    /\ vsRet' = VsOutcome("client_message", 0, "forwarded")
    /\ UNCHANGED <<instances, now, tunnel, processes, notVscodeVars>>

\* forward_from_target: instance.touch(), the backend frame is sent to the client
TunnelBackendMessage(sid) ==
    /\ tunnel[sid]
    /\ instances' = [instances EXCEPT ![sid] = Touch(@, now)]
    /\ vsRet' = VsOutcome("backend_message", 0, "forwarded")
    /\ UNCHANGED <<now, tunnel, processes, notVscodeVars>>

\* the client or the backend closes the tunnel
TunnelClose(sid) ==
    /\ tunnel[sid]
    /\ tunnel' = [tunnel EXCEPT ![sid] = FALSE]
    /\ UNCHANGED <<instances, now, vsRet, processes, notVscodeVars>>

NextVSCode ==
    \/ \E sid \in VsIds : VsStart(sid)
    \/ \E sid \in VsIds : VsStop(sid)
    \/ CleanupIdle
    \/ \E sid \in VsIds : ProcessExit(sid)
    \/ Tick
    \/ \E sid \in VsIds : ProxyRequest(sid)
    \/ \E sid \in VsIds : TunnelOpen(sid)
    \/ \E sid \in VsIds : TunnelClientMessage(sid)
    \/ \E sid \in VsIds : TunnelBackendMessage(sid)
    \/ \E sid \in VsIds : TunnelClose(sid)

SpecVSCode == Init /\ [][NextVSCode]_vars

----------------------------------------------------------------------------
(***************************************************************************)
(* SpecNotify: the idle-output notifier of one PTYSession.  The reader     *)
(* thread feeds it chunks, each debounce timer runs _check_and_notify on a *)
(* thread of its own, and the blocking HTTP call of _send_notification is  *)
(* a step apart from the check that began it.                              *)
(***************************************************************************)

\* PTYSession.set_ntfy_topic
SetTopic(topic) ==
    /\ ntfy_topic' = IF topic = "" THEN None ELSE topic
    /\ UNCHANGED <<notification_buffer, last_output_time, notification_timer,
                   last_notification_time, clock, inflight, sendLog, outputs,
                   notNotifyVars>>

\* PTYSession._handle_notification_output
Output(data) ==
    /\ outputs < MaxOutputs
    /\ outputs' = outputs + 1
    /\ IF ntfy_topic = None
       THEN UNCHANGED <<notification_buffer, last_output_time, notification_timer>>
       ELSE /\ notification_buffer' = KeepLast(notification_buffer \o data)
            /\ last_output_time' = clock
            /\ notification_timer' = [pending |-> TRUE, at |-> clock]
    /\ UNCHANGED <<ntfy_topic, last_notification_time, clock, inflight, sendLog,
                   notNotifyVars>>

\* time passes
NotifyTick ==
    /\ clock < notification_cooldown + MaxTicks
    /\ clock' = clock + 1
    /\ UNCHANGED <<ntfy_topic, notification_buffer, last_output_time,
                   notification_timer, last_notification_time, inflight, sendLog,
                   outputs, notNotifyVars>>

\* the pending timer fires: _check_and_notify up to the call of
\* _send_notification (lines 189-236)
TimerFire ==
    /\ notification_timer.pending
    /\ clock - notification_timer.at >= DebounceDelay
    /\ notification_timer' = [notification_timer EXCEPT !.pending = FALSE]
    /\ IF ntfy_topic = None
       THEN UNCHANGED <<notification_buffer, inflight, sendLog>>
       ELSE IF clock - last_notification_time < notification_cooldown
       THEN /\ notification_buffer' = <<>>
            /\ UNCHANGED <<inflight, sendLog>>
       ELSE IF Len(CleanText(notification_buffer)) < MinCleanLen
       THEN /\ notification_buffer' = <<>>
            /\ UNCHANGED <<inflight, sendLog>>
       ELSE /\ sendLog' = Append(sendLog,
                                 [message |-> Classify(CleanText(notification_buffer)),
                                  at |-> clock,
                                  text |-> CleanText(notification_buffer)])
            /\ inflight' = inflight \cup {clock}
            /\ UNCHANGED notification_buffer
    /\ UNCHANGED <<ntfy_topic, last_output_time, last_notification_time, clock,
                   outputs, notNotifyVars>>

\* _send_notification returns to the check that read the clock at n
\* (lines 237-238)
SendDone(n) ==
    /\ n \in inflight
    /\ inflight' = inflight \ {n}
    /\ last_notification_time' = n
    /\ notification_buffer' = <<>>
    /\ UNCHANGED <<ntfy_topic, last_output_time, notification_timer, clock, sendLog,
                   outputs, notNotifyVars>>

NextNotify ==
    \/ \E topic \in Topics : SetTopic(topic)
    \/ \E data \in OutputChunks : Output(data)
    \/ NotifyTick
    \/ TimerFire
    \/ \E n \in inflight : SendDone(n)

SpecNotify == Init /\ [][NextNotify]_vars

----------------------------------------------------------------------------
(***************************************************************************)
(* SpecProxy: login and logout, the supervisor's start, backend exits and  *)
(* time, and the HTTP proxy and websocket upgrade handlers with their      *)
(* authentication.                                                         *)
(***************************************************************************)

\* main.login: generate_token when the password verifies
Login(ok) ==
    /\ IF PASSWORD /\ ~ok
       THEN /\ proxyRet' = ProxyOutcome("login", "401")
            /\ UNCHANGED <<auth_tokens, issued>>
       ELSE \E t \in TokenIds \ issued :
              /\ auth_tokens' = auth_tokens \cup {t}
              /\ issued' = issued \cup {t}
              /\ proxyRet' = ProxyOutcome("login", "ok")
    /\ UNCHANGED <<PASSWORD, redirect, vscodeVars, notProxyVars>>

\* main.logout
Logout(cookie) ==
    /\ auth_tokens' = IF cookie # None /\ cookie \in auth_tokens
                      THEN auth_tokens \ {cookie} ELSE auth_tokens
    /\ proxyRet' = ProxyOutcome("logout", "ok")
    /\ UNCHANGED <<PASSWORD, issued, redirect, vscodeVars, notProxyVars>>

\* vscode_proxy and proxy_to_vscode up to http_client.request
HttpProxy(req) ==
    /\ IF PASSWORD /\ ~VerifyToken(HttpToken(req))
       THEN /\ proxyRet' = ProxyOutcome("http", "401")
            /\ UNCHANGED instances
       ELSE IF ~HasLive(instances, req.sid)
       THEN /\ proxyRet' = [ProxyOutcome("http", "503") EXCEPT !.lookup = TRUE]
            /\ UNCHANGED instances
       ELSE /\ instances' = [instances EXCEPT ![req.sid] = Touch(@, now)]
            /\ proxyRet' = [ProxyOutcome("http", "forwarded") EXCEPT
                                !.lookup = TRUE,
                                !.target = TargetUrl("http", instances[req.sid].port,
                                                     req.path, req.query)]
    /\ UNCHANGED <<PASSWORD, auth_tokens, issued, redirect, now, tunnel, vsRet,
                   processes, notProxyVars>>

\* vscode_websocket_proxy up to websockets.connect
TunnelUpgrade(req) ==
    /\ IF PASSWORD /\ ~VerifyToken(WsToken(req))
       THEN /\ proxyRet' = ProxyOutcome("ws", "4001")
            /\ UNCHANGED instances
       ELSE IF ~HasLive(instances, req.sid)
       THEN /\ proxyRet' = [ProxyOutcome("ws", "4004") EXCEPT !.lookup = TRUE]
            /\ UNCHANGED instances
       ELSE /\ instances' = [instances EXCEPT ![req.sid] = Touch(@, now)]
            /\ proxyRet' = [ProxyOutcome("ws", "accepted") EXCEPT
                                !.lookup = TRUE,
                                !.target = TargetUrl("ws", instances[req.sid].port,
                                                     req.path, req.query)]
    /\ UNCHANGED <<PASSWORD, auth_tokens, issued, redirect, now, tunnel, vsRet,
                   processes, notProxyVars>>

NextProxy ==
    \/ \E ok \in BOOLEAN : Login(ok)
    \/ \E cookie \in CarriedTokens \cup {None} : Logout(cookie)
    \/ \E sid \in ProxyIds : VsStart(sid)
    \/ \E sid \in ProxyIds : ProcessExit(sid)
    \/ Tick
    \/ \E req \in Requests : HttpProxy(req)
    \/ \E req \in Requests : TunnelUpgrade(req)

SpecProxy == InitAuth /\ [][NextProxy]_vars

----------------------------------------------------------------------------
(***************************************************************************)
(* SpecRewrite: the response half of proxy_to_vscode, for the instance of  *)
(* any session on any port of the range and any location header.           *)
(***************************************************************************)

\* proxy_to_vscode, lines 513-534, for a response with a location header
\* or without one
ProxyResponse(sid, port, present, location) ==
    /\ redirect' = [port |-> port, sid |-> sid, present |-> present,
                    location |-> IF present THEN location ELSE <<>>,
                    out |-> IF present THEN RewriteLocation(location, port, sid)
                            ELSE <<>>]
    /\ UNCHANGED <<PASSWORD, auth_tokens, issued, proxyRet, vscodeVars, notProxyVars>>

NextRewrite ==
    \E sid \in VsIds, port \in PortRange :
        \E present \in BOOLEAN, location \in Locations(port) :
            ProxyResponse(sid, port, present, location)

SpecRewrite == Init /\ [][NextRewrite]_vars

----------------------------------------------------------------------------
(***************************************************************************)
(* SpecTerminal: terminal websockets against the session registry.  Each   *)
(* connection is resolved to a PTYSession, refused or registered, and then *)
(* its frames are handled by the receive loop; sessions are created and    *)
(* cleaned up and their children exit meanwhile.  No password is set, so   *)
(* the token check of lines 297-299 passes.  The delivery of the history   *)
(* frame, which can fail, is the subject of Spec.                          *)
(***************************************************************************)

\* websocket_terminal up to the receive loop, lines 293-359: accept, resolve
\* the session, refuse with one error frame and close, or add_client and send
\* the history when there is one (hist)
TermConnect(c, session_id, hist) ==
    /\ ~PASSWORD
    /\ term[c].pc = "new"
    /\ LET e == ResolveSession(session_id) IN
       IF Refusal(e) # None
       THEN /\ term' = [term EXCEPT ![c] =
                   [pc |-> "closed", asked |-> session_id, engine |-> 0,
                    chunks |-> {},
                    frames |-> <<[type |-> "error", message |-> Refusal(e)]>>]]
            /\ UNCHANGED engine_clients
       ELSE /\ engine_clients' = [engine_clients EXCEPT ![e] = @ \cup {c}]
            /\ term' = [term EXCEPT ![c] =
                   [pc |-> "attached", asked |-> session_id, engine |-> e,
                    chunks |-> {},
                    frames |-> IF hist
                               THEN <<[type |-> "history", message |-> ""]>>
                               ELSE <<>>]]
    /\ UNCHANGED <<wrote, termRet, notTermVars, sessionVars>>

\* PTYSession.write as the receive loop calls it: the outcome of the call
SessionWrite(e) ==
    IF WriteRefused(e)
    THEN lastWrite' = [ret |-> FALSE, io |-> FALSE]
    ELSE \E ok \in BOOLEAN : lastWrite' = [ret |-> ok, io |-> TRUE]

\* the finally clause, lines 403-407: remove_client, and the handler returns
Detach(c) ==
    /\ engine_clients' = [engine_clients EXCEPT ![term[c].engine] = @ \ {c}]
    /\ term' = [term EXCEPT ![c].pc = "closed"]

\* receive loop, lines 380-384: a binary frame is written to the PTY
TermBinaryFrame(c) ==
    /\ term[c].pc = "attached"
    /\ SessionWrite(term[c].engine)
    /\ wrote' = wrote \cup {c}
    /\ termRet' = [act |-> "write", data |-> "bytes"]
    /\ UNCHANGED <<term, engine_clients, sessions, default_session, engines,
                   gocRet, firstCall, forksFor, notTermVars>>

\* receive loop, lines 386-397 and 401-407: a text frame is parsed and
\* dispatched; an exception other than JSONDecodeError leaves the loop
TermTextFrame(c, f) ==
    /\ term[c].pc = "attached"
    /\ LET h == HandleText(f) IN
       /\ termRet' = h
       /\ IF h.act = "write"
          THEN SessionWrite(term[c].engine) /\ wrote' = wrote \cup {c}
          ELSE UNCHANGED <<lastWrite, wrote>>
       /\ IF h.act = "raise"
          THEN Detach(c)
          ELSE UNCHANGED <<term, engine_clients>>
    /\ UNCHANGED <<sessions, default_session, engines, gocRet, firstCall,
                   forksFor, notTermVars>>

\* receive loop, lines 376-378 and 399-400: the client disconnects
TermDisconnect(c) ==
    /\ term[c].pc = "attached"
    /\ Detach(c)
    /\ UNCHANGED <<wrote, termRet, sessionVars, notTermVars>>

NextTerminal ==
    \/ \E n \in SessionNames : GetOrCreateSession(n, "dirA", <<>>)
    \/ \E n \in SessionNames : CleanupSession(n)
    \/ \E e \in EngineIds : ReaderEOF(e)
    \/ \E c \in TermIds, sid \in SessionNames \cup {None}, hist \in BOOLEAN :
           TermConnect(c, sid, hist)
    \/ \E c \in TermIds : TermBinaryFrame(c)
    \/ \E c \in TermIds, f \in TextFrames : TermTextFrame(c, f)
    \/ \E c \in TermIds : TermDisconnect(c)

SpecTerminal == Init /\ [][NextTerminal]_vars

(***************************************************************************)
(* SpecLifecycle: sessions and their code-server instances over the life   *)
(* of the server: sessions are created and deleted through the API, a      *)
(* code-server is started for a session, children and code-servers exit,   *)
(* and the server shuts down.                                              *)
(***************************************************************************)

\* main.create_session, reduced to its call of get_or_create_session
CreateSession(n) ==
    /\ serving
    /\ GetOrCreateSession(n, "dirA", <<>>)
    /\ UNCHANGED serving

\* main.start_vscode: the working directory is taken from the session or,
\* when there is none under that id, from the default session (404 without
\* either), and the instance is started under the id of the request
StartVscode(n) ==
    /\ serving
    /\ TopicSession(n) # 0
    /\ VsStartIn(VsKey[n], engines[TopicSession(n)].working_dir)
    /\ UNCHANGED serving

\* main.delete_session: 404 for an id that is not registered, else
\* cleanup_session and nothing more
DeleteSession(n) ==
    /\ serving
    /\ CleanupSession(n)
    /\ UNCHANGED serving

\* the reader of a session's engine sees the end of the stream
ChildExit(e) ==
    /\ serving
    /\ ReaderEOF(e)
    /\ UNCHANGED serving

\* a code-server exits on its own
CodeServerExit(n) ==
    /\ serving
    /\ ProcessExit(VsKey[n])
    /\ UNCHANGED serving

\* lifespan after the yield: cleanup_session for every registered session,
\* then stop_all
Shutdown ==
    /\ serving
    /\ serving' = FALSE
    /\ engines' = [e \in DOMAIN engines |->
                      IF \E n \in DOMAIN sessions : sessions[n] = e
                      THEN CleanedUp(engines[e]) ELSE engines[e]]
    /\ sessions' = <<>>
    /\ default_session' = None
    /\ firstCall' = <<>>
    /\ forksFor' = [n \in SessionNames |-> 0]
    /\ instances' = <<>>
    /\ processes' = Killed(processes, DOMAIN instances)
    /\ tunnel' = [s \in VsIds |-> FALSE]
    /\ vsRet' = VsOutcome("stop_all", 0, "none")
    /\ UNCHANGED <<gocRet, lastWrite, now, notLifeVars>>

NextLifecycle ==
    \/ \E n \in SessionNames : CreateSession(n)
    \/ \E n \in SessionNames : StartVscode(n)
    \/ \E n \in SessionNames : DeleteSession(n)
    \/ \E e \in EngineIds : ChildExit(e)
    \/ \E n \in SessionNames : CodeServerExit(n)
    \/ Shutdown

SpecLifecycle == Init /\ [][NextLifecycle]_vars

(***************************************************************************)
(* SpecRelay: one websocket tunnel of vscode_websocket_proxy.  The handler *)
(* awaits asyncio.gather over forward_to_target, which awaits the client's *)
(* next frame, and forward_from_target, which iterates over the backend's  *)
(* frames.  The client and the backend send and close as they please; the  *)
(* steps of the event loop are fair in SpecRelayFair, those of the peers   *)
(* are not.  No password is set.                                           *)
(***************************************************************************)

\* vscode_websocket_proxy up to the gather, lines 564-613: close(4004) without
\* a live instance; else accept, touch and connect to the backend, which
\* succeeds (ok) or raises into the finally clause
RelayUpgrade(ok) ==
    /\ ~PASSWORD
    /\ relay.handler = "none"
    /\ IF ~HasLive(instances, RelayId)
       THEN /\ relay' = [relay EXCEPT !.handler = "returned", !.sock = "closed"]
            /\ UNCHANGED instances
       ELSE /\ instances' = [instances EXCEPT ![RelayId] = Touch(@, now)]
            /\ relay' = IF ok
                        THEN [relay EXCEPT !.handler = "gather", !.up = "receiving",
                                           !.down = "iterating", !.backend = "open",
                                           !.sock = "open"]
                        ELSE [relay EXCEPT !.handler = "returned", !.sock = "closed"]
    /\ UNCHANGED <<now, tunnel, vsRet, processes, notRelayVars>>

\* forward_to_target, lines 593-598: the client sends a frame and the loop
\* sends it on; ws_target.send raises ConnectionClosed on a closed backend,
\* which the loop does not catch
ClientFrame ==
    /\ relay.handler = "gather"
    /\ relay.up = "receiving"
    /\ relay.client = "open"
    /\ relay.upCount < MaxFrames
    /\ relay' = IF relay.backend = "open"
                THEN [relay EXCEPT !.upCount = @ + 1]
                ELSE [relay EXCEPT !.up = "raised"]
    /\ UNCHANGED <<vscodeVars, notRelayVars>>

\* the client goes away
ClientCloses ==
    /\ relay.handler = "gather"
    /\ relay.client = "open"
    /\ relay' = [relay EXCEPT !.client = "gone"]
    /\ UNCHANGED <<vscodeVars, notRelayVars>>

\* forward_to_target, line 594: receive() returns the disconnect message,
\* which has neither text nor bytes, and the loop goes round
UpReceivesDisconnect ==
    /\ relay.handler = "gather"
    /\ relay.up = "receiving"
    /\ relay.client = "gone"
    /\ ~relay.seen
    /\ relay' = [relay EXCEPT !.seen = TRUE]
    /\ UNCHANGED <<vscodeVars, notRelayVars>>

\* forward_to_target, line 594: receive() after the disconnect message raises
\* RuntimeError, which is not WebSocketDisconnect
UpReceivesAgain ==
    /\ relay.handler = "gather"
    /\ relay.up = "receiving"
    /\ relay.seen
    /\ relay' = [relay EXCEPT !.up = "raised"]
    /\ UNCHANGED <<vscodeVars, notRelayVars>>

\* forward_from_target, lines 604-609: the backend sends a frame; touch, and
\* the frame is sent to the client.  The send to a client that is gone
\* raises or is dropped, as the server underneath decides.
BackendFrame ==
    /\ relay.handler = "gather"
    /\ relay.down = "iterating"
    /\ relay.backend = "open"
    /\ relay.downCount < MaxFrames
    /\ instances' = [instances EXCEPT ![RelayId] = Touch(@, now)]
    /\ IF relay.client = "open"
       THEN relay' = [relay EXCEPT !.downCount = @ + 1]
       ELSE \E raises \in BOOLEAN :
              relay' = IF raises THEN [relay EXCEPT !.down = "raised"]
                       ELSE [relay EXCEPT !.downCount = @ + 1]
    /\ UNCHANGED <<now, tunnel, vsRet, processes, notRelayVars>>

\* the backend closes its stream
BackendCloses ==
    /\ relay.handler = "gather"
    /\ relay.backend = "open"
    /\ relay' = [relay EXCEPT !.backend = "closed"]
    /\ UNCHANGED <<vscodeVars, notRelayVars>>

\* forward_from_target, lines 604 and 610-611: the iteration ends, or raises
\* ConnectionClosed which is caught; the loop returns
DownSeesEnd ==
    /\ relay.down = "iterating"
    /\ relay.backend = "closed"
    /\ relay' = [relay EXCEPT !.down = "done"]
    /\ UNCHANGED <<vscodeVars, notRelayVars>>

\* asyncio.gather is over: both loops have returned, or one has raised
GatherOver ==
    \/ relay.up = "raised"
    \/ relay.down = "raised"
    \/ relay.up = "done" /\ relay.down = "done"

\* lines 613-620: gather returns or raises, the backend connection is left,
\* and the finally clause closes the client-facing websocket
RelayEnds ==
    /\ relay.handler = "gather"
    /\ GatherOver
    /\ relay' = [relay EXCEPT !.handler = "returned", !.backend = "closed",
                              !.sock = "closed"]
    /\ UNCHANGED <<vscodeVars, notRelayVars>>

\* the steps the event loop takes on its own
RelaySteps == UpReceivesDisconnect \/ UpReceivesAgain \/ DownSeesEnd \/ RelayEnds

NextRelay ==
    \/ VsStart(RelayId)
    \/ Tick
    \/ \E ok \in BOOLEAN : RelayUpgrade(ok)
    \/ ClientFrame
    \/ ClientCloses
    \/ UpReceivesDisconnect
    \/ UpReceivesAgain
    \/ BackendFrame
    \/ BackendCloses
    \/ DownSeesEnd
    \/ RelayEnds

SpecRelay == Init /\ [][NextRelay]_vars

SpecRelayFair ==
    /\ SpecRelay
    /\ WF_vars(UpReceivesDisconnect)
    /\ WF_vars(UpReceivesAgain)
    /\ WF_vars(DownSeesEnd)
    /\ WF_vars(RelayEnds)

(***************************************************************************)
(* SpecApi: the session endpoints of the API against one registry: create  *)
(* with a working directory, delete, restart and set-topic, while children *)
(* exit.  Each handler runs on the event loop without awaiting, so it is   *)
(* one step.                                                               *)
(***************************************************************************)

\* main.create_session with a working_dir parameter (None when absent) and
\* no claude_args
CreateSessionIn(n, working_dir) ==
    /\ serving
    /\ GetOrCreateSession(n, IF working_dir = None THEN WORKING_DIR ELSE working_dir,
                          <<"claude">>)

\* Mutant of RestartDir: the session is relaunched in the server's directory.
RestartDirDefault(sid) == WORKING_DIR

\* restart_session, lines 283-284: session.working_dir if session else
\* WORKING_DIR
RestartDir(sid) ==
    IF sid \in DOMAIN sessions THEN engines[sessions[sid]].working_dir ELSE WORKING_DIR

\* main.restart_session: the working directory of the session under the id,
\* cleanup_session, then get_or_create_session with that directory and no
\* command; start() of the new engine succeeds (ok) or the call raises
RestartSession(session_id, ok) ==
    LET sid == IF session_id # None THEN session_id ELSE SESSION_NAME
        old == IF sid \in DOMAIN sessions THEN sessions[sid] ELSE 0
        work_dir == RestartDir(sid)
        stopped == IF old # 0 THEN [engines EXCEPT ![old] = CleanedUp(@)] ELSE engines
        cleared == IF default_session = sid THEN None ELSE default_session
        obj == Len(engines) + 1
    IN
    /\ serving
    /\ IF ok
       THEN /\ Len(engines) < MaxEngines
            /\ engines' = Append(stopped, Started(NewEngine(work_dir, <<>>)))
            /\ sessions' = Put(sessions, sid, obj)
            /\ default_session' = IF cleared = None THEN sid ELSE cleared
            /\ gocRet' = [name |-> sid, other |-> FALSE, raised |-> FALSE, ret |-> obj]
            /\ firstCall' = Put(firstCall, sid,
                                [dir |-> work_dir, cmd |-> <<>>, ret |-> obj])
            /\ forksFor' = [forksFor EXCEPT ![sid] = 1]
       ELSE /\ engines' = stopped
            /\ sessions' = Drop(sessions, sid)
            /\ default_session' = cleared
            /\ gocRet' = [name |-> sid, other |-> FALSE, raised |-> TRUE, ret |-> 0]
            /\ firstCall' = Drop(firstCall, sid)
            /\ forksFor' = [forksFor EXCEPT ![sid] = 0]
    /\ UNCHANGED <<lastWrite, notSessionVars>>

\* main.set_ntfy_topic and PTYSession.set_ntfy_topic: 404 without a session
\* to act on, else the topic of that session is set (None for an empty one)
SetNtfyTopic(session_id, topic) ==
    /\ serving
    /\ LET e == TopicSession(session_id) IN
       IF e = 0
       THEN UNCHANGED engines
       ELSE engines' = [engines EXCEPT ![e].ntfy_topic =
                           IF topic = "" THEN None ELSE topic]
    /\ UNCHANGED <<sessions, default_session, gocRet, firstCall, forksFor,
                   lastWrite, notSessionVars>>

\* shlex.split of the claude_args of a request: None and "" add nothing
ClaudeArgs == {None, "--resume"}
SplitArgs(claude_args) == IF claude_args = None THEN <<>> ELSE <<claude_args>>

\* main.create_session with claude_args, lines 222-228: the command is
\* ["claude"] extended by the split arguments
CreateSessionWith(n, working_dir, claude_args) ==
    /\ serving
    /\ GetOrCreateSession(n, IF working_dir = None THEN WORKING_DIR ELSE working_dir,
                          <<"claude">> \o SplitArgs(claude_args))

NextApi ==
    \/ \E n \in SessionNames, d \in Dirs \cup {None} : CreateSessionIn(n, d)
    \/ \E n \in SessionNames : DeleteSession(n)
    \/ \E sid \in SessionNames \cup {None}, ok \in BOOLEAN : RestartSession(sid, ok)
    \/ \E sid \in SessionNames \cup {None}, t \in Topics : SetNtfyTopic(sid, t)
    \/ \E e \in EngineIds : ChildExit(e)

SpecApi == Init /\ [][NextApi]_vars

\* SpecCommand: sessions created with and without extra arguments, then
\* restarted or deleted
NextCommand ==
    \/ \E n \in SessionNames, d \in Dirs \cup {None}, a \in ClaudeArgs :
           CreateSessionWith(n, d, a)
    \/ \E n \in SessionNames : DeleteSession(n)
    \/ \E sid \in SessionNames \cup {None}, ok \in BOOLEAN : RestartSession(sid, ok)
    \/ \E e \in EngineIds : ChildExit(e)

SpecCommand == Init /\ [][NextCommand]_vars

(***************************************************************************)
(* SpecRebind: a terminal connection that outlives the engine it was given.*)
(* Sessions are created, deleted and restarted while the connection sends  *)
(* input and the readers of the engines, old and new, broadcast chunks to  *)
(* the clients registered with them.                                       *)
(***************************************************************************)

\* _read_loop of engine e reads a chunk and _broadcast_output hands it to the
\* sink of every client in its clients map, lines 131 and 159-163; a reader
\* that has not yet seen cleanup() can still do so.  One chunk of each
\* engine is followed.
EngineBroadcast(e) ==
    /\ engines[e].reader = "loop"
    /\ engines[e].produced = 0
    /\ engines' = [engines EXCEPT ![e].produced = 1]
    /\ term' = [c \in TermIds |->
                   IF c \in engine_clients[e]
                   THEN [term[c] EXCEPT !.chunks = @ \cup {e}]
                   ELSE term[c]]
    /\ UNCHANGED <<sessions, default_session, gocRet, firstCall, forksFor, lastWrite,
                   engine_clients, wrote, termRet, notTermVars>>

NextRebind ==
    \/ \E n \in SessionNames : GetOrCreateSession(n, "dirA", <<>>)
    \/ \E n \in SessionNames : CleanupSession(n)
    \/ \E sid \in SessionNames, ok \in BOOLEAN : RestartSession(sid, ok)
    \/ \E e \in EngineIds : EngineBroadcast(e)
    \/ \E e \in EngineIds : ReaderLoopExit(e)
    \/ \E c \in TermIds, sid \in SessionNames \cup {None} : TermConnect(c, sid, FALSE)
    \/ \E c \in TermIds : TermBinaryFrame(c)
    \/ \E c \in TermIds : TermDisconnect(c)

SpecRebind == Init /\ [][NextRebind]_vars

(***************************************************************************)
(* SpecStart: the supervisor started for sessions in different working     *)
(* directories, stopped and swept, while code-servers exit and time        *)
(* passes.                                                                 *)
(***************************************************************************)
\* the session ids the supervisor is called for
StartIds == {1, 2}

NextStart ==
    \/ \E sid \in StartIds, dir \in Dirs : VsStartIn(sid, dir)
    \/ \E sid \in StartIds : VsStop(sid)
    \/ CleanupIdle
    \/ \E sid \in StartIds : ProcessExit(sid)
    \/ Tick

SpecStart == Init /\ [][NextStart]_vars

(***************************************************************************)
(* SpecNotifyThreads: the notifier with one timer thread followed through  *)
(* the reads of ntfy_topic it makes: the test of _check_and_notify, the    *)
(* test of _send_notification, and the URL it builds.  set_ntfy_topic runs *)
(* on the event loop and the chunks arrive on the reader thread, between   *)
(* any two of them; nothing locks the topic.  A second timer does not fire *)
(* while the first thread runs.                                            *)
(***************************************************************************)

\* the pending timer fires: _check_and_notify up to the call of
\* _send_notification (lines 189-236)
CheckAndNotify ==
    /\ sender.pc = "idle"
    /\ notification_timer.pending
    /\ clock - notification_timer.at >= DebounceDelay
    /\ notification_timer' = [notification_timer EXCEPT !.pending = FALSE]
    /\ IF ntfy_topic = None
       THEN UNCHANGED <<notification_buffer, sender>>
       ELSE IF clock - last_notification_time < notification_cooldown
       THEN /\ notification_buffer' = <<>>
            /\ UNCHANGED sender
       ELSE IF Len(CleanText(notification_buffer)) < MinCleanLen
       THEN /\ notification_buffer' = <<>>
            /\ UNCHANGED sender
       ELSE /\ sender' = [pc |-> "calling",
                          message |-> Classify(CleanText(notification_buffer)),
                          text |-> CleanText(notification_buffer),
                          at |-> clock, topic |-> None]
            /\ UNCHANGED notification_buffer
    /\ UNCHANGED <<ntfy_topic, last_output_time, last_notification_time, clock,
                   inflight, sendLog, outputs, notSenderVars>>

\* _send_notification, line 242: if not self.ntfy_topic: return
SendTest ==
    /\ sender.pc = "calling"
    /\ sender' = [sender EXCEPT !.pc = IF ntfy_topic = None THEN "returning"
                                       ELSE "tested"]
    /\ UNCHANGED <<notifyVars, notSenderVars>>

\* _send_notification, line 245: the URL is built from self.ntfy_topic, read
\* again; str(None) is "None"
SendBuild ==
    /\ sender.pc = "tested"
    /\ sender' = [sender EXCEPT !.pc = "built", !.topic = ntfy_topic]
    /\ UNCHANGED <<notifyVars, notSenderVars>>

\* _send_notification, lines 246-253: the request is posted
SendPost ==
    /\ sender.pc = "built"
    /\ sendLog' = Append(sendLog, [message |-> sender.message, at |-> clock,
                                   text |-> sender.text])
    /\ sender' = [sender EXCEPT !.pc = "returning"]
    /\ UNCHANGED <<ntfy_topic, notification_buffer, last_output_time,
                   notification_timer, last_notification_time, clock, inflight,
                   outputs, notSenderVars>>

\* _check_and_notify, lines 237-238, after _send_notification has returned
SendReturn ==
    /\ sender.pc = "returning"
    /\ last_notification_time' = sender.at
    /\ notification_buffer' = <<>>
    /\ sender' = InitSender
    /\ UNCHANGED <<ntfy_topic, last_output_time, notification_timer, clock, inflight,
                   sendLog, outputs, notSenderVars>>

NextNotifyThreads ==
    \/ \E topic \in Topics : SetTopic(topic)
    \/ \E data \in OutputChunks : Output(data)
    \/ NotifyTick
    \/ CheckAndNotify
    \/ SendTest
    \/ SendBuild
    \/ SendPost
    \/ SendReturn

SpecNotifyThreads == Init /\ [][NextNotifyThreads]_vars

(***************************************************************************)
(* SpecLaunch: get_or_create_session with every way start() can go: the    *)
(* pty or the fork fails in the server, the child fails after the fork,    *)
(* or the command is executed.                                             *)
(***************************************************************************)

\* get_or_create_session on an unregistered name when the child cannot enter
\* the directory or execute the command: in the server start() returns True
CreateChildFails(name, dir, cmd) ==
    /\ NeedsCreate(name)
    /\ Len(engines) < MaxEngines
    /\ LET obj == Len(engines) + 1 IN
       /\ engines' = Append(engines, StartedChildFailed(NewEngine(dir, cmd)))
       /\ sessions' = Put(sessions, name, obj)
       /\ NoteReturn(name, dir, cmd, obj)
    /\ default_session' = IF default_session = None THEN name ELSE default_session
    /\ forksFor' = [forksFor EXCEPT ![name] = @ + 1]
    /\ UNCHANGED <<lastWrite, notSessionVars>>

NextLaunch ==
    \/ \E n \in SessionNames, d \in Dirs : GetOrCreateSession(n, d, <<"claude">>)
    \/ \E n \in SessionNames, d \in Dirs : CreateChildFails(n, d, <<"claude">>)
    \/ \E n \in SessionNames : CleanupSession(n)
    \/ \E e \in EngineIds : ReaderEOF(e)

SpecLaunch == Init /\ [][NextLaunch]_vars

(***************************************************************************)
(* SpecSinks: the reader thread broadcasting to clients whose sinks can    *)
(* raise, either in the callback or in its hand-off to the event loop.     *)
(* An exception that left _broadcast_output would reach the handler of     *)
(* _read_loop, which leaves the loop and sets running = False.             *)
(***************************************************************************)

\* _read_loop and _broadcast_output: a chunk is read and broadcast while the
\* sinks of the clients in failing raise
SinkBroadcast(n, failing) ==
    /\ reader.running
    /\ Len(broadcastLog) < MaxChunks
    /\ failing \subseteq clients
    /\ LET data == NextChunk(n)
           out == FanoutFailing(loopReady, clients, data, failing)
       IN /\ output_buffer' = Trim(Append(output_buffer, data))
          /\ broadcastLog' = Append(broadcastLog, data)
          /\ loopReady' = out.ready
          /\ reader' = [running |-> ~out.escaped, failed |-> failing]
    /\ UNCHANGED <<clients, conn, notReaderVars>>

\* _read_loop: end of stream or a read error
ReaderStops ==
    /\ reader.running
    /\ reader' = [reader EXCEPT !.running = FALSE]
    /\ UNCHANGED <<ptyVars, notReaderVars>>

NextSinks ==
    \/ \E n \in 1..ReadSize, failing \in SUBSET ConnIds : SinkBroadcast(n, failing)
    \/ ReaderStops
    \/ \E c \in ConnIds : WsAttach(c)
    \/ LoopRunCallback

SpecSinks == Init /\ [][NextSinks]_vars

(***************************************************************************)
(* SpecCallers: two requests for sessions in flight at once.  Every caller *)
(* of get_or_create_session is a coroutine of the one event loop (the      *)
(* lifespan and the handlers create_session and restart_session), and the  *)
(* method does not await: between its test of the registry and its return  *)
(* no other handler runs.  The method is followed in two steps so that     *)
(* this is a property of the scheduling and not of the step size.          *)
(***************************************************************************)

\* Mutant of LoopFree: a handler starts while another is inside the method.
LoopFreeAlways(c) == TRUE

\* the event loop runs one callback at a time: no other request is between
\* the test and the return of get_or_create_session
LoopFree(c) == \A d \in CallerIds \ {c} : callers[d].pc # "checked"

\* a request naming a session arrives and its handler is scheduled
CallerRequest(c, name, dir) ==
    /\ callers[c].pc = "idle"
    /\ callers' = [callers EXCEPT ![c] = [pc |-> "pending", name |-> name, dir |-> dir,
                                           fresh |-> name \notin DOMAIN sessions,
                                           need |-> FALSE, ret |-> 0]]
    /\ UNCHANGED <<sessionVars, notCallerVars>>

\* get_or_create_session, line 357: if session_id not in self._sessions
CallerCheck(c) ==
    /\ callers[c].pc = "pending"
    /\ LoopFree(c)
    /\ callers' = [callers EXCEPT ![c] = [@ EXCEPT !.pc = "checked",
                                                    !.need = NeedsCreate(callers[c].name)]]
    /\ UNCHANGED <<sessionVars, notCallerVars>>

\* get_or_create_session, lines 358-365: the engine is constructed, started
\* and recorded when the test asked for it, and self._sessions[session_id] is
\* returned; RuntimeError when start() returns False
CallerFinish(c, ok) ==
    /\ callers[c].pc = "checked"
    /\ LET name == callers[c].name
           obj == Len(engines) + 1
       IN IF ~callers[c].need
          THEN /\ ok
               /\ callers' = [callers EXCEPT ![c] = [@ EXCEPT !.pc = "returned",
                                                               !.ret = sessions[name]]]
               /\ UNCHANGED <<sessions, default_session, engines, forksFor>>
          ELSE IF ok
          THEN /\ Len(engines) < MaxEngines
               /\ engines' = Append(engines, Started(NewEngine(callers[c].dir, <<>>)))
               /\ sessions' = Put(sessions, name, obj)
               /\ default_session' = IF default_session = None THEN name
                                     ELSE default_session
               /\ forksFor' = [forksFor EXCEPT ![name] = @ + 1]
               /\ callers' = [callers EXCEPT ![c] = [@ EXCEPT !.pc = "returned",
                                                               !.ret = obj]]
          ELSE /\ callers' = [callers EXCEPT ![c] = [@ EXCEPT !.pc = "raised"]]
               /\ UNCHANGED <<sessions, default_session, engines, forksFor>>
    /\ UNCHANGED <<gocRet, firstCall, lastWrite, notCallerVars>>

\* the response is sent and the handler ends
CallerDone(c) ==
    /\ callers[c].pc \in {"returned", "raised"}
    /\ callers' = [callers EXCEPT ![c] = IdleCaller]
    /\ UNCHANGED <<sessionVars, notCallerVars>>

NextCallers ==
    \/ \E c \in CallerIds, n \in SessionNames, d \in Dirs : CallerRequest(c, n, d)
    \/ \E c \in CallerIds : CallerCheck(c)
    \/ \E c \in CallerIds, ok \in BOOLEAN : CallerFinish(c, ok)
    \/ \E c \in CallerIds : CallerDone(c)

SpecCallers == Init /\ [][NextCallers]_vars

(***************************************************************************)
(* SpecReader: the reader thread of one engine, one statement of           *)
(* _read_loop per step, while the child writes and exits and cleanup()     *)
(* runs statement by statement on another thread.  master_fd is "open",    *)
(* "closed" (os.close has run, the attribute still holds the number) or    *)
(* None.  select waits at most 0.1 s, so each statement of the thread      *)
(* completes: the thread's steps are weakly fair.                          *)
(***************************************************************************)

\* Mutant of ErrorLeavesLoop: the loop goes on after an exception.
ErrorRetries == FALSE

\* _read_loop, lines 136-142: except OSError: break / except Exception: break
ErrorLeavesLoop == TRUE

\* where the thread goes after select or os.read raised
AfterError == IF ErrorLeavesLoop THEN "mark" ELSE "while"

\* line 122: while self.running and self.master_fd is not None
RlTest ==
    /\ rl.pc = "while"
    /\ rl' = [rl EXCEPT !.pc = IF rl.running /\ rl.master_fd # None THEN "select"
                                ELSE "mark"]
    /\ UNCHANGED notLoopVars

\* line 125: select.select([self.master_fd], [], [], 0.1).  None is no
\* descriptor (TypeError) and a closed descriptor is refused (OSError or
\* ValueError); otherwise the descriptor is ready when the child has written
\* or has gone, and the call times out when it has not
RlSelect ==
    /\ rl.pc = "select"
    /\ IF rl.master_fd # "open"
       THEN rl' = [rl EXCEPT !.pc = AfterError, !.err = TRUE]
       ELSE IF rl.pending > 0 \/ rl.child = "exited"
       THEN rl' = [rl EXCEPT !.pc = "read"]
       ELSE rl' = [rl EXCEPT !.pc = "while"]
    /\ UNCHANGED notLoopVars

\* lines 128-137: os.read(self.master_fd, 4096).  With the child gone and
\* nothing left to read the call returns b"" or raises OSError (EIO),
\* depending on the platform
RlRead(eof) ==
    /\ rl.pc = "read"
    /\ IF rl.master_fd # "open"
       THEN ~eof /\ rl' = [rl EXCEPT !.pc = AfterError, !.err = TRUE]
       ELSE IF rl.pending > 0
       THEN ~eof /\ rl' = [rl EXCEPT !.pc = "broadcast", !.pending = @ - 1]
       ELSE IF eof
       THEN rl' = [rl EXCEPT !.pc = "mark", !.running = FALSE, !.eof = TRUE,
                             !.marked = TRUE]
       ELSE rl' = [rl EXCEPT !.pc = AfterError, !.err = TRUE]
    /\ UNCHANGED notLoopVars

\* line 131: self._broadcast_output(data)
RlBroadcast ==
    /\ rl.pc = "broadcast"
    /\ rl' = [rl EXCEPT !.pc = "while", !.sent = @ + 1]
    /\ UNCHANGED notLoopVars

\* line 144: self.running = False, and the thread ends
RlMark ==
    /\ rl.pc = "mark"
    /\ rl' = [rl EXCEPT !.pc = "done", !.running = FALSE, !.marked = TRUE]
    /\ UNCHANGED notLoopVars

\* the child writes to its terminal
ChildWrites ==
    /\ rl.child = "alive"
    /\ rl.written < MaxChunks
    /\ rl' = [rl EXCEPT !.pending = @ + 1, !.written = @ + 1]
    /\ UNCHANGED notLoopVars

\* the child exits on its own
ChildGone ==
    /\ rl.child = "alive"
    /\ rl' = [rl EXCEPT !.child = "exited"]
    /\ UNCHANGED notLoopVars

\* cleanup(), line 315: self.running = False
CleanupMarks ==
    /\ rl.cleanup = "idle"
    /\ rl' = [rl EXCEPT !.cleanup = "close", !.running = FALSE]
    /\ UNCHANGED notLoopVars

\* cleanup(), lines 317-321: os.close(self.master_fd)
CleanupCloses ==
    /\ rl.cleanup = "close"
    /\ rl' = [rl EXCEPT !.cleanup = "none",
                        !.master_fd = IF @ = None THEN None ELSE "closed"]
    /\ UNCHANGED notLoopVars

\* cleanup(), line 322: self.master_fd = None
CleanupClears ==
    /\ rl.cleanup = "none"
    /\ rl' = [rl EXCEPT !.cleanup = "kill", !.master_fd = None]
    /\ UNCHANGED notLoopVars

\* cleanup(), lines 331-337: os.kill(self.pid, SIGTERM)
CleanupKills ==
    /\ rl.cleanup = "kill"
    /\ rl' = [rl EXCEPT !.cleanup = "done", !.child = "exited"]
    /\ UNCHANGED notLoopVars

ReaderSteps == RlTest \/ RlSelect \/ (\E eof \in BOOLEAN : RlRead(eof)) \/ RlBroadcast \/ RlMark

NextReader ==
    \/ RlTest
    \/ RlSelect
    \/ \E eof \in BOOLEAN : RlRead(eof)
    \/ RlBroadcast
    \/ RlMark
    \/ ChildWrites
    \/ ChildGone
    \/ CleanupMarks
    \/ CleanupCloses
    \/ CleanupClears
    \/ CleanupKills

SpecReader == Init /\ [][NextReader]_vars /\ WF_vars(ReaderSteps)

(***************************************************************************)
(* SpecTimers: the debounce timers of one engine and the idle-sweep tasks  *)
(* of the supervisor.  A threading.Timer is "armed" from start() until its *)
(* wait ends: by the interval ("fired", the function runs) or by cancel()  *)
(* ("cancelled").  _handle_notification_output runs on the reader thread   *)
(* only and is followed in two steps, the timers' own threads firing in    *)
(* between.  A task is "running", "cancelling" between cancel() and the    *)
(* delivery of CancelledError, or "done".                                  *)
(***************************************************************************)

\* Mutant of CancelTimer: the existing timer is left armed.
CancelTimerNever(timers, current) == timers

\* lines 181-182: if self._notification_timer: self._notification_timer.cancel()
CancelTimer(timers, current) ==
    IF current # 0 /\ timers[current] = "armed"
    THEN [timers EXCEPT ![current] = "cancelled"]
    ELSE timers

\* set_ntfy_topic on the event loop
TimerTopic(on) ==
    /\ debounce' = [debounce EXCEPT !.topic = on]
    /\ UNCHANGED <<sweep, notTimerVars>>

\* _handle_notification_output, lines 170-182: no topic, return; else the
\* buffer is extended and the existing timer cancelled
OutputCancels ==
    /\ debounce.pc = "idle"
    /\ Len(debounce.timers) < MaxTimers
    /\ IF ~debounce.topic
       THEN UNCHANGED debounce
       ELSE debounce' = [debounce EXCEPT
                            !.pc = "cancelled",
                            !.timers = CancelTimer(debounce.timers, debounce.current)]
    /\ UNCHANGED <<sweep, notTimerVars>>

\* _handle_notification_output, lines 185-187: a new Timer is created,
\* assigned and started
OutputArms ==
    /\ debounce.pc = "cancelled"
    /\ debounce' = [debounce EXCEPT !.pc = "idle",
                                     !.timers = Append(@, "armed"),
                                     !.current = Len(debounce.timers) + 1]
    /\ UNCHANGED <<sweep, notTimerVars>>

\* a timer's wait ends by its interval: _check_and_notify runs on its thread
TimerFires(i) ==
    /\ debounce.timers[i] = "armed"
    /\ debounce' = [debounce EXCEPT !.timers[i] = "fired"]
    /\ UNCHANGED <<sweep, notTimerVars>>

\* asyncio.Task.done()
TaskDone(i) == sweep.tasks[i] = "done"

\* VSCodeManager.start_cleanup_task
StartCleanupTask ==
    /\ Len(sweep.tasks) < MaxTasks
    /\ IF sweep.current = 0 \/ (sweep.current # 0 /\ TaskDone(sweep.current))
       THEN sweep' = [tasks |-> Append(sweep.tasks, "running"),
                      current |-> Len(sweep.tasks) + 1]
       ELSE UNCHANGED sweep
    /\ UNCHANGED <<debounce, notTimerVars>>

\* VSCodeManager.stop_cleanup_task
StopCleanupTask ==
    /\ IF sweep.current # 0 /\ ~TaskDone(sweep.current)
       THEN sweep' = [sweep EXCEPT !.tasks[sweep.current] = "cancelling"]
       ELSE UNCHANGED sweep
    /\ UNCHANGED <<debounce, notTimerVars>>

\* start_cleanup_loop ends: CancelledError is delivered at its await, or
\* cleanup_idle raises
TaskEnds(i) ==
    /\ sweep.tasks[i] # "done"
    /\ sweep' = [sweep EXCEPT !.tasks[i] = "done"]
    /\ UNCHANGED <<debounce, notTimerVars>>

NextTimers ==
    \/ \E on \in BOOLEAN : TimerTopic(on)
    \/ OutputCancels
    \/ OutputArms
    \/ \E i \in 1..Len(debounce.timers) : TimerFires(i)
    \/ StartCleanupTask
    \/ StopCleanupTask
    \/ \E i \in 1..Len(sweep.tasks) : TaskEnds(i)

SpecTimers == Init /\ [][NextTimers]_vars

(***************************************************************************)
(* Replay buffer: C1, C2 (SpecBroadcast) and C3 (Spec)                     *)
(***************************************************************************)
IsPrefix(s, t) == Len(s) <= Len(t) /\ SubSeq(t, 1, Len(s)) = s

Suffix(s, k) == SubSeq(s, k, Len(s))

\* the longest suffix of a chunk sequence whose total length fits in the cap
LongestFittingSuffix(log) ==
    LET k == CHOOSE i \in 1..(Len(log) + 1) :
                 /\ TotalSize(Suffix(log, i)) <= buffer_max_size
                 /\ \A j \in 1..(i - 1) : TotalSize(Suffix(log, j)) > buffer_max_size
    IN Suffix(log, k)

\* C1: after any sequence of _broadcast_output calls, with chunks of any size
\* (a single chunk larger than the cap included), the lengths of the chunks
\* held in output_buffer sum to at most buffer_max_size.
C1_BufferWithinCap == TotalSize(output_buffer) <= buffer_max_size

\* a chunk larger than the cap has been broadcast, and chunks were kept after it
C1_Witness ==
    /\ \E i \in 1..Len(broadcastLog) : Len(broadcastLog[i]) > buffer_max_size
    /\ output_buffer # <<>>
    /\ TotalSize(output_buffer) = buffer_max_size

\* C2: output_buffer is exactly the longest suffix of the chunks broadcast so
\* far whose total length fits in buffer_max_size: whole chunks, in broadcast
\* order, none missing, and nothing evicted that would still fit.
C2_BufferIsLongestFittingSuffix ==
    output_buffer = LongestFittingSuffix(broadcastLog)

\* some chunks have been evicted and several are retained, filling the cap
C2_Witness ==
    /\ Len(output_buffer) >= 2
    /\ Len(output_buffer) < Len(broadcastLog)
    /\ TotalSize(output_buffer) = buffer_max_size

\* the callbacks of connection c still waiting in the event loop, in order
ReadyFor(c) ==
    LET RECURSIVE Pick(_)
        Pick(r) ==
            IF r = <<>> THEN <<>>
            ELSE IF Head(r).conn = c THEN <<Head(r).data>> \o Pick(Tail(r))
            ELSE Pick(Tail(r))
    IN Pick(loopReady)

\* the chunks broadcast after connection c registered
ChunksAfter(c) == Suffix(broadcastLog, conn[c].regAt + 1)

\* the frames connection c is owed: the snapshot, then every later chunk
FramesOwed(c) ==
    (IF conn[c].history = <<>> THEN <<>> ELSE <<conn[c].history>>) \o ChunksAfter(c)

\* C3: a client registered between chunk A and chunk B is sent first the
\* replay-buffer snapshot taken at registration (it ends with A and holds
\* nothing of B), then B and every later chunk in broadcast order, each
\* exactly once; no relayed chunk goes out before the snapshot and none is
\* skipped.
C3_SnapshotThenLaterChunks ==
    \A c \in ConnIds :
        conn[c].pc # "new" =>
            LET before == SubSeq(broadcastLog, 1, conn[c].regAt)
                h == conn[c].history
                A == broadcastLog[conn[c].regAt]
            IN /\ h = Join(LongestFittingSuffix(before))
               /\ conn[c].regAt >= 1 =>
                      /\ Len(h) >= Len(A)
                      /\ SubSeq(h, Len(h) - Len(A) + 1, Len(h)) = A
               /\ IsPrefix(conn[c].sent, FramesOwed(c))
               /\ conn[c].pc = "sending_history" =>
                      /\ conn[c].sent = <<>>
                      /\ conn[c].queue \o ReadyFor(c) = ChunksAfter(c)
               /\ conn[c].pc = "attached" =>
                      conn[c].sent \o conn[c].queue \o ReadyFor(c) = FramesOwed(c)

\* a client registered after chunk A has been sent the snapshot, B and a
\* later chunk
C3_Witness ==
    \E c \in ConnIds :
        /\ conn[c].pc = "attached"
        /\ conn[c].regAt >= 1
        /\ Len(broadcastLog) >= conn[c].regAt + 2
        /\ conn[c].sent = FramesOwed(c)

----------------------------------------------------------------------------
(***************************************************************************)
(* Session registry and engine: C4, C5 (SpecSession)                       *)
(***************************************************************************)

\* C4: get_or_create_session(name, dirA, cmdA) followed by
\* get_or_create_session(name, dirB, cmdB) with no delete in between returns
\* the same PTYSession object both times, starts exactly one child process,
\* and leaves working_dir and command as the first call gave them (the
\* default command when the first call gave none).
C4_GetOrCreateIdempotent ==
    \A n \in DOMAIN firstCall :
        LET first == firstCall[n] IN
        /\ (gocRet.name = n /\ ~gocRet.raised) => gocRet.ret = first.ret
        /\ sessions[n] = first.ret
        /\ forksFor[n] = 1
        /\ engines[first.ret].working_dir = first.dir
        /\ engines[first.ret].command = IF first.cmd = <<>> THEN <<"claude">> ELSE first.cmd

\* a second call with another directory and another command has returned
C4_Witness ==
    \E n \in DOMAIN firstCall :
        /\ gocRet.name = n /\ ~gocRet.raised /\ gocRet.other
        /\ gocRet.ret = firstCall[n].ret

\* cleanup() has run on engine e, or its reader has left the loop on
\* end-of-stream or a read error
Stopped(e) == engines[e].cleaned \/ engines[e].reader = "done"

----------------------------------------------------------------------------
(***************************************************************************)
(* Supervisor, idle sweep and activity: C6 .. C9 (SpecVSCode)              *)
(***************************************************************************)
LiveIds == {s \in DOMAIN instances : instances[s].alive}

\* C6: after any sequence of start, stop, idle sweep and backend exits, no
\* two instances whose process is alive have the same port, and every
\* assigned port lies in [BASE_PORT, BASE_PORT + MAX_INSTANCES).
C6_PortsDistinctAndInRange ==
    /\ \A s \in DOMAIN instances :
           /\ instances[s].port >= BASE_PORT
           /\ instances[s].port < BASE_PORT + MAX_INSTANCES
    /\ \A s, t \in LiveIds : s # t => instances[s].port # instances[t].port

\* every port is held by a live instance, and a port freed by a stop has
\* been given to a later session id
C6_Witness ==
    /\ Cardinality(LiveIds) = MAX_INSTANCES
    /\ \E s, t \in LiveIds : s > t /\ instances[s].port < instances[t].port

\* C7: with MAX_INSTANCES instances alive, start() for a further session id
\* fails with the no-available-port RuntimeError, raised before the binary
\* lookup and before any launch, and leaves the instance map unchanged.
C7_ExhaustedStartFails ==
    [][\A sid \in VsIds :
          (Cardinality(LiveIds) = MAX_INSTANCES /\ sid \notin LiveIds /\ VsStart(sid))
              => /\ vsRet'.op = "start" /\ vsRet'.sid = sid
                 /\ vsRet'.result = "RuntimeError"
                 /\ ~vsRet'.lookup /\ ~vsRet'.launched
                 /\ instances' = instances]_vars

\* a start has just been refused while every port is held by a live instance
C7_Witness ==
    /\ Cardinality(LiveIds) = MAX_INSTANCES
    /\ vsRet.op = "start" /\ vsRet.result = "RuntimeError"
    /\ vsRet.sid \notin DOMAIN instances

\* C8: one run of cleanup_idle removes every recorded instance idle for more
\* than IDLE_TIMEOUT and leaves every other one recorded, on the same port,
\* with its process and its last_activity as they were.
C8_SweepStopsExactlyTheIdle ==
    [][CleanupIdle =>
          \A s \in DOMAIN instances :
              IF now - instances[s].last_activity > IDLE_TIMEOUT
              THEN s \notin DOMAIN instances'
              ELSE s \in DOMAIN instances' /\ instances'[s] = instances[s]]_vars

\* a sweep has stopped an instance and kept a live one that is idle for
\* exactly the timeout
C8_Witness ==
    /\ vsRet.op = "cleanup_idle" /\ vsRet.stopped # {}
    /\ \A s \in DOMAIN instances : now - instances[s].last_activity <= IDLE_TIMEOUT
    /\ \E s \in LiveIds : now - instances[s].last_activity = IDLE_TIMEOUT

\* C9: every proxied HTTP request and every tunneled message, client to
\* backend as well as backend to client, resets the instance's idle age to
\* zero.
C9_EveryMessageTouches ==
    [][\A sid \in VsIds :
          (\/ HasLive(instances, sid) /\ ProxyRequest(sid)
           \/ TunnelClientMessage(sid)
           \/ TunnelBackendMessage(sid))
              => now' - instances'[sid].last_activity = 0]_vars

----------------------------------------------------------------------------
(***************************************************************************)
(* Notifier: C10 (SpecNotify)                                              *)
(***************************************************************************)

\* a notification send began less than the cooldown ago
RecentSend ==
    \E i \in 1..Len(sendLog) : clock - sendLog[i].at < notification_cooldown

\* the message of the first pattern of the list that matches, else the
\* generic one
FirstMatchMessage(text) ==
    LET m == MatchingPatterns(text) IN
    IF m = {} THEN GenericMessage
    ELSE waiting_patterns[CHOOSE i \in m : \A j \in m : i <= j].msg

\* C10: with a topic set and no notification sent within the cooldown, output
\* whose cleaned text (the rolling buffer's, when the timer fires) has at
\* least 5 characters, followed by quiet for the debounce delay, produces
\* exactly one notification send, with the message of the first matching
\* pattern or the generic message; every chunk re-arms the one timer, so no
\* send happens less than the debounce delay after a chunk and a timer sends
\* at most once; the rolling buffer is empty when the send has returned.
C10_DebouncedSingleSend ==
    [][/\ (/\ TimerFire
           /\ ntfy_topic # None
           /\ ~RecentSend
           /\ Len(CleanText(notification_buffer)) >= MinCleanLen)
              => /\ Len(sendLog') = Len(sendLog) + 1
                 /\ SubSeq(sendLog', 1, Len(sendLog)) = sendLog
                 /\ sendLog'[Len(sendLog')].at = clock
                 /\ sendLog'[Len(sendLog')].message =
                        FirstMatchMessage(CleanText(notification_buffer))
       /\ (ntfy_topic # None /\ \E data \in OutputChunks : Output(data))
              => notification_timer' = [pending |-> TRUE, at |-> clock']
       /\ sendLog' # sendLog
              => /\ Len(sendLog') = Len(sendLog) + 1
                 /\ clock - last_output_time >= DebounceDelay
                 /\ notification_timer.pending /\ ~notification_timer'.pending
       /\ \A n \in inflight : SendDone(n) => notification_buffer' = <<>>]_vars

\* a burst of several chunks went quiet and was notified once, with the
\* message of the first of several matching patterns; the send has returned
\* and the buffer is empty
C10_Witness ==
    /\ Len(sendLog) = 1
    /\ Cardinality(MatchingPatterns(sendLog[1].text)) >= 2
    /\ sendLog[1].message = "Claude needs confirmation"
    /\ outputs >= 2
    /\ inflight = {}
    /\ last_notification_time = sendLog[1].at
    /\ notification_buffer = <<>>

\* C11: a second burst that goes quiet within the cooldown window of an
\* earlier notification produces no send, whatever the interleaving of the
\* reader and the timer threads: a check that runs less than the cooldown
\* after a send began sends nothing, also while that earlier send has not
\* returned yet.
C11_NoSendWithinCooldown ==
    [][(TimerFire /\ RecentSend) => sendLog' = sendLog]_vars

----------------------------------------------------------------------------
(***************************************************************************)
(* Reverse proxy and its authentication: C12, C14, C15 (SpecProxy)         *)
(***************************************************************************)

\* the request passes the proxy's authentication check
Authorized(req) == ~PASSWORD \/ VerifyToken(HttpToken(req))

NoValidToken(req) ==
    /\ req.cookie \notin auth_tokens
    /\ QueryGet(req.query, "token") \notin auth_tokens

\* C14: with a password configured, an HTTP proxy request or a tunnel
\* upgrade that carries no token of the valid set (issued by login, not
\* removed by logout) is refused before any instance lookup: no activity
\* refresh, nothing forwarded, no backend connection.  With no password
\* configured no request is refused by the check.
C14_NoTokenNoProxying ==
    [][\A req \in Requests :
          /\ (PASSWORD /\ NoValidToken(req) /\ (HttpProxy(req) \/ TunnelUpgrade(req)))
                 => /\ proxyRet'.status \in {"401", "4001"}
                    /\ ~proxyRet'.lookup
                    /\ proxyRet'.target = None
                    /\ instances' = instances
          /\ (~PASSWORD /\ (HttpProxy(req) \/ TunnelUpgrade(req)))
                 => proxyRet'.status \notin {"401", "4001"}]_vars

\* a request was refused while the only token ever issued is logged out and
\* the instance it asked for is live and has not been refreshed
C14_Witness ==
    /\ PASSWORD
    /\ proxyRet.kind = "http" /\ proxyRet.status = "401"
    /\ issued # {} /\ auth_tokens = {}
    /\ 1 \in LiveIds
    /\ instances[1].last_activity < now

\* C15: with a password configured, a tunnel upgrade that presents a valid
\* token only in the teleclaude_token cookie is authorized, as the HTTP
\* proxy request with the same cookie is.
C15_TunnelAcceptsCookie ==
    [][\A req \in Requests :
          (/\ PASSWORD
           /\ req.cookie \in auth_tokens
           /\ QueryGet(req.query, "token") = None
           /\ TunnelUpgrade(req))
              => proxyRet'.status # "4001"]_vars

----------------------------------------------------------------------------
(***************************************************************************)
(* Location rewriting: C13 (SpecRewrite)                                   *)
(***************************************************************************)

\* the location is the backend's own origin, alone or followed by a path
PointsAtBackend(location, port) ==
    /\ StartsWith(location, Origin(port))
    /\ \/ Len(location) = Len(Origin(port))
       \/ location[Len(Origin(port)) + 1] = "/"

\* the origin prefix replaced by the public prefix, the remainder kept
PrefixReplaced(location, port, sid) ==
    PublicPrefix(sid) \o SubSeq(location, Len(Origin(port)) + 1, Len(location))

\* C13: the location header of a proxied response is rewritten if and only
\* if it points at the backend's own origin http://127.0.0.1:<port>; then
\* only that prefix is replaced by /vscode/<session_id> and the remainder is
\* preserved; any other location, another port whose decimal text begins
\* with the instance's port included, is returned unchanged.
C13_LocationRewrittenIffBackend ==
    redirect.present =>
        redirect.out =
            IF PointsAtBackend(redirect.location, redirect.port)
            THEN PrefixReplaced(redirect.location, redirect.port, redirect.sid)
            ELSE redirect.location

----------------------------------------------------------------------------
(***************************************************************************)
(* Terminal connections: C17 (Spec)                                        *)
(***************************************************************************)

\* C17: however a registered connection ends, its client is removed from the
\* engine's client map: in every reachable state a client id is in the map
\* only while its connection is open.
C17_ClientOnlyWhileOpen ==
    \A c \in clients : conn[c].pc \in {"sending_history", "attached"}

(***************************************************************************)
(* Terminal connections: C16, C18 (SpecTerminal)                           *)
(***************************************************************************)

\* the connection names a session that is not registered, or names none
\* while neither SESSION_NAME nor a default session is registered
Unresolvable(session_id) ==
    IF session_id # None
    THEN session_id \notin DOMAIN sessions
    ELSE SESSION_NAME \notin DOMAIN sessions /\ default_session = None

\* the session the connection resolves to is registered but its engine is
\* not running
ResolvesToStopped(session_id) ==
    /\ ~Unresolvable(session_id)
    /\ ~engines[ResolveSession(session_id)].running

\* the effect of a refused connection: one error frame, closed, and nothing
\* registered, replayed or written
RefusedEffect(c) ==
    /\ term'[c].pc = "closed"
    /\ Len(term'[c].frames) = 1
    /\ term'[c].frames[1].type = "error"
    /\ engine_clients' = engine_clients
    /\ wrote' = wrote
    /\ lastWrite' = lastWrite

\* a connection that was refused holds no engine, is in no clients map, got
\* no history frame and none of its input reached a PTY
RefusedStaysOut(c) ==
    (term[c].pc = "closed" /\ term[c].engine = 0) =>
        /\ \A e \in EngineSlots : c \notin engine_clients[e]
        /\ c \notin wrote
        /\ \A i \in 1..Len(term[c].frames) : term[c].frames[i].type # "history"

\* C16: a terminal connection whose session cannot be resolved, or resolves
\* to a session that is not running, receives exactly one structured error
\* frame and is closed; it is never registered with an engine, receives no
\* history, and none of its input reaches any PTY.
C16_RefusedConnection ==
    /\ [][\A c \in TermIds, sid \in SessionNames \cup {None}, hist \in BOOLEAN :
            (TermConnect(c, sid, hist)
             /\ (Unresolvable(sid) \/ ResolvesToStopped(sid)))
            => RefusedEffect(c)]_vars
    /\ [](\A c \in TermIds : RefusedStaysOut(c))

\* a connection was refused because its session, though registered, was not
\* running
C16_Witness ==
    /\ term[1].pc = "closed"
    /\ term[1].engine = 0
    /\ term[1].frames = <<[type |-> "error", message |-> "Session not running"]>>
    /\ \E n \in DOMAIN sessions : ~engines[sessions[n]].running

\* a well-formed command: an object of type resize, or of type input whose
\* data is a string
WellFormed(f) ==
    /\ f.json = "object"
    /\ \/ f.type = "resize"
       \/ f.type = "input" /\ f.data = "string"

\* C18: while attached, every text frame that is not a well-formed resize or
\* input command (text that is not JSON, JSON that is not an object, an
\* object whose type is missing or unknown, an input whose data is not a
\* string) is written to the PTY as literal input, and the connection stays
\* attached.
C18_MalformedFrameIsLiteralInput ==
    [][\A c \in TermIds, f \in TextFrames :
          (TermTextFrame(c, f) /\ ~WellFormed(f))
          => /\ termRet' = [act |-> "write", data |-> f.text]
             /\ term'[c].pc = "attached"]_vars

----------------------------------------------------------------------------
(***************************************************************************)
(* Deleting a session: C19 (SpecLifecycle)                                 *)
(***************************************************************************)

\* C19: after a session is deleted, by a delete request or by the server
\* shutting down, its PTY engine is stopped and no code-server instance
\* under the same key remains alive or recorded.
C19_DeleteLeavesNothing ==
    [][/\ \A n \in SessionNames :
             DeleteSession(n) =>
                 /\ engines'[sessions[n]].cleaned
                 /\ VsKey[n] \notin DOMAIN instances'
       /\ Shutdown =>
             /\ \A n \in DOMAIN sessions : engines'[sessions[n]].cleaned
             /\ DOMAIN instances' = {}]_vars

----------------------------------------------------------------------------
(***************************************************************************)
(* The tunnel's end: C20 (SpecRelayFair)                                   *)
(***************************************************************************)

\* one side of an established tunnel has closed
OneSideClosed ==
    /\ relay.handler = "gather"
    /\ relay.backend = "closed" \/ relay.client = "gone"

\* C20: in the tunnel, when either side closes or errors (in particular when
\* the backend's stream ends while the client stays connected and sends
\* nothing), the client-facing connection is eventually closed.
C20_TunnelEventuallyClosed == OneSideClosed ~> (relay.sock = "closed")

----------------------------------------------------------------------------
(***************************************************************************)
(* The session endpoints: C21, C22, C30 (SpecApi)                          *)
(***************************************************************************)

\* the notification topic of the session registered under a name
TopicOf(n) == engines[sessions[n]].ntfy_topic

\* C21: the notification topic is per session: a set-topic request naming
\* session X changes the topic of X only and never the topic of a different
\* session Y, including when X is not a registered session.
C21_TopicPerSession ==
    [][\A x \in SessionNames, t \in Topics :
          SetNtfyTopic(x, t) =>
              \A y \in DOMAIN sessions \ {x} :
                  engines'[sessions[y]].ntfy_topic = TopicOf(y)]_vars

\* the session a restart request acts on
RestartName(session_id) == IF session_id # None THEN session_id ELSE SESSION_NAME

\* C22: restarting an existing session X whose working directory is D stops
\* X's current engine and leaves the registry holding, under the same name
\* X, a newly started running engine whose working directory is D (the
\* relaunch succeeding).
C22_RestartKeepsDirectory ==
    [][\A sid \in SessionNames \cup {None} :
          (RestartSession(sid, TRUE) /\ RestartName(sid) \in DOMAIN sessions)
          => LET x == RestartName(sid)
                 old == sessions[x]
             IN /\ engines'[old].cleaned /\ ~engines'[old].running
                /\ x \in DOMAIN sessions'
                /\ sessions'[x] \notin EngineIds
                /\ engines'[sessions'[x]].running
                /\ engines'[sessions'[x]].working_dir = engines[old].working_dir]_vars

\* a session created in a directory other than the server's has been
\* restarted: its engine is a later one, called for without a command, and
\* runs in that directory; the earlier engine is stopped
C22_Witness ==
    \E n \in DOMAIN sessions :
        /\ gocRet = [name |-> n, other |-> FALSE, raised |-> FALSE, ret |-> sessions[n]]
        /\ n \in DOMAIN firstCall
        /\ firstCall[n].cmd = <<>>
        /\ engines[sessions[n]].running
        /\ engines[sessions[n]].working_dir = "dirB"
        /\ \E e \in 1..(sessions[n] - 1) :
               engines[e].cleaned /\ engines[e].working_dir = "dirB"

\* the default pointer is unset or names a registered session
DefaultRegistered == default_session = None \/ default_session \in DOMAIN sessions

\* the names whose engine was started in this step
CreatedNow == {n \in DOMAIN sessions' : sessions'[n] \notin EngineIds}

\* the default pointer changes only by being cleared when the session it
\* names leaves the registry, or by being set, when unset, to a name
\* created in the step; a creation while it is unset sets it
DefaultChange ==
    /\ default_session' # default_session =>
          \/ /\ default_session # None
             /\ default_session \notin DOMAIN sessions'
             /\ default_session' = None
          \/ /\ default_session = None
             /\ default_session' \in CreatedNow
    /\ (default_session = None /\ CreatedNow # {}) => default_session' \in CreatedNow

\* C30: after any sequence of create, delete and restart operations the
\* default pointer is either unset or names a session in the registry; it
\* is set to the first successfully created name, changes only when that
\* session is deleted, and after that is set by the next successful creation.
C30_DefaultPointer == []DefaultRegistered /\ [][DefaultChange]_vars

\* the first default session was deleted and the next creation, of another
\* name, became the default
C30_Witness ==
    /\ default_session = "y"
    /\ DOMAIN sessions = {"y"}
    /\ sessions["y"] = 2
    /\ engines[1].cleaned

----------------------------------------------------------------------------
(***************************************************************************)
(* The supervisor's stop and start: C23 (SpecVSCode), C24 (SpecStart)      *)
(***************************************************************************)

\* C23: stop(session_id) returns False whenever nothing was running for the
\* id, both when no instance is recorded and when the recorded instance's
\* process has already exited, and returns True only when it stopped a live
\* process; in every case no record for the id remains afterwards.
C23_StopReturnsWhetherRunning ==
    [][\A sid \in VsIds :
          VsStop(sid) =>
              /\ (vsRet'.result = "True") <=> (sid \in LiveIds)
              /\ sid \notin DOMAIN instances']_vars

\* start() on an id with a live instance: nothing is launched, the instance
\* keeps its port, directory and process, only its last_activity is set,
\* and no other record changes
StartOnLive(sid) ==
    /\ ~vsRet'.launched
    /\ vsRet'.result = "existing"
    /\ processes' = processes
    /\ DOMAIN instances' = DOMAIN instances
    /\ instances'[sid] = [instances[sid] EXCEPT !.last_activity = now]
    /\ \A o \in DOMAIN instances \ {sid} : instances'[o] = instances[o]

\* C24: start(session_id, dir) for an id that already has a live instance
\* launches no new process, returns the same instance with the same port and
\* working directory, and changes only that instance's last_activity; at no
\* time are two live processes recorded or running for one session key.
C24_IdempotentStart ==
    /\ [][\A sid \in VsIds, dir \in Dirs :
             (VsStartIn(sid, dir) /\ sid \in LiveIds) => StartOnLive(sid)]_vars
    /\ [](\A sid \in VsIds : processes[sid] <= 1)

\* a live instance launched in one directory was started again later: it was
\* returned as existing, only its last_activity moved
C24_Witness ==
    /\ vsRet.op = "start" /\ vsRet.result = "existing" /\ vsRet.sid = 1
    /\ 1 \in LiveIds
    /\ instances[1].working_dir = "dirB"
    /\ instances[1].last_activity = now /\ now > 0
    /\ processes[1] = 1

----------------------------------------------------------------------------
(***************************************************************************)
(* Clearing the topic: C25 (SpecNotifyThreads)                             *)
(***************************************************************************)

\* C25: after a session's topic is set to empty, no notification is sent for
\* that session until a non-empty topic is set again, even if a debounce
\* timer armed before the topic was cleared fires afterwards; chunks
\* broadcast while no topic is set are not added to the rolling buffer.
C25_NoSendWithoutTopic ==
    [][/\ sendLog' # sendLog => ntfy_topic # None
       /\ (\E data \in OutputChunks : Output(data)) /\ ntfy_topic = None
              => notification_buffer' = notification_buffer]_vars

----------------------------------------------------------------------------
(***************************************************************************)
(* Launch failures: C26, C27 (SpecLaunch)                                  *)
(***************************************************************************)

\* C26: if the child process cannot be brought up (the working directory
\* cannot be entered or the command cannot be executed after the fork), the
\* creation request fails with the launch error surfaced to the requester
\* and no session is recorded in the registry as running.
C26_ChildFailureSurfaced ==
    [][\A n \in SessionNames, d \in Dirs :
          CreateChildFails(n, d, <<"claude">>) =>
              /\ gocRet'.raised
              /\ \A m \in DOMAIN sessions' :
                     engines'[sessions'[m]].child = "failed"
                         => ~engines'[sessions'[m]].running]_vars

\* C27: when start() of a new engine returns False, get_or_create_session
\* raises and the registry is unchanged: the name is not recorded, the set
\* of sessions is the same, and the default pointer keeps its value.
C27_FailedStartLeavesRegistry ==
    [][\A n \in SessionNames, d \in Dirs :
          CreateFails(n, d, <<"claude">>) =>
              /\ gocRet'.raised /\ gocRet'.name = n
              /\ n \notin DOMAIN sessions'
              /\ sessions' = sessions
              /\ default_session' = default_session]_vars

\* with x registered and the default, a creation of y has just raised
C27_Witness ==
    /\ gocRet.raised /\ gocRet.name = "y"
    /\ DOMAIN sessions = {"x"}
    /\ default_session = "x"
    /\ engines[sessions["x"]].running

----------------------------------------------------------------------------
(***************************************************************************)
(* Failing sinks: C28 (SpecSinks)                                          *)
(***************************************************************************)

\* the callbacks made ready in this step
NewlyReady == SubSeq(loopReady', Len(loopReady) + 1, Len(loopReady'))

\* C28: if one client's sink raises during a broadcast (including a failed
\* hand-off into the event loop), the chunk is still appended to the replay
\* buffer and still pushed to every other registered client, and the reader
\* loop keeps running with the engine still marked running.
C28_SinkFailureIsolated ==
    [][\A n \in 1..ReadSize, failing \in SUBSET ConnIds :
          (SinkBroadcast(n, failing) /\ failing # {})
          => /\ output_buffer' # <<>>
             /\ output_buffer'[Len(output_buffer')] = NextChunk(n)
             /\ \A c \in clients \ failing :
                    \E i \in 1..Len(NewlyReady) :
                        NewlyReady[i] = [conn |-> c, data |-> NextChunk(n)]
             /\ reader'.running]_vars

\* with both clients registered the sink of the first raised: the chunk is
\* the newest of the replay buffer, is ready for the second client, and the
\* reader runs
C28_Witness ==
    /\ clients = {1, 2}
    /\ reader = [running |-> TRUE, failed |-> {1}]
    /\ broadcastLog # <<>>
    /\ output_buffer # <<>>
    /\ output_buffer[Len(output_buffer)] = broadcastLog[Len(broadcastLog)]
    /\ loopReady # <<>>
    /\ loopReady[Len(loopReady)] = [conn |-> 2, data |-> broadcastLog[Len(broadcastLog)]]

----------------------------------------------------------------------------
(***************************************************************************)
(* Concurrent creation: C29 (SpecCallers)                                  *)
(***************************************************************************)

\* both requests named n while it was unregistered, and both calls returned
BothReturned(n) ==
    \A c \in CallerIds :
        /\ callers[c].pc = "returned"
        /\ callers[c].name = n
        /\ callers[c].fresh

\* every engine that was started and not cleaned up is in the registry
StartedAreRecorded ==
    \A e \in 1..Len(engines) :
        engines[e].running => \E n \in DOMAIN sessions : sessions[n] = e

\* C29: two concurrent callers of get_or_create_session with the same
\* not-yet-registered name start exactly one PTY engine (one child process),
\* both receive that same session, and no started engine is left unrecorded.
C29_OneEnginePerName ==
    \A n \in SessionNames :
        BothReturned(n)
        => /\ forksFor[n] = 1
           /\ \A c, d \in CallerIds : callers[c].ret = callers[d].ret
           /\ n \in DOMAIN sessions /\ sessions[n] = callers[1].ret
           /\ StartedAreRecorded

\* both requests named x while it was unregistered, with different
\* directories, and both hold the one engine started for x
C29_Witness ==
    /\ BothReturned("x")
    /\ callers[1].dir # callers[2].dir
    /\ callers[1].ret = callers[2].ret
    /\ forksFor["x"] = 1
    /\ engines[callers[1].ret].running

----------------------------------------------------------------------------
(***************************************************************************)
(* Explicit session ids: C31 (SpecTerminal)                                *)
(***************************************************************************)

\* connection c is registered with no engine other than those in allowed
OnlyIn(c, allowed) ==
    \A e \in EngineSlots : c \in engine_clients'[e] => e \in allowed

\* C31: a terminal client that names an explicit non-empty session id is
\* attached only to the session registered under exactly that id: if no such
\* session exists it is rejected rather than attached to the default or any
\* other session, so it never receives another session's output and its
\* input never reaches another session's PTY.
C31_ExplicitIdOnly ==
    [][\A c \in TermIds, sid \in SessionNames, hist \in BOOLEAN :
          TermConnect(c, sid, hist)
          => IF sid \in DOMAIN sessions
             THEN /\ term'[c].engine \in {0, sessions[sid]}
                  /\ OnlyIn(c, {sessions[sid]})
             ELSE /\ term'[c].pc = "closed"
                  /\ term'[c].engine = 0
                  /\ term'[c].frames =
                         <<[type |-> "error", message |-> "Session not found"]>>
                  /\ OnlyIn(c, {})]_vars

\* a connection that named a session which is not registered was refused as
\* not found while the default session was registered and running
C31_Witness ==
    /\ term[1].pc = "closed"
    /\ term[1].asked \in SessionNames \ DOMAIN sessions
    /\ term[1].engine = 0
    /\ term[1].frames = <<[type |-> "error", message |-> "Session not found"]>>
    /\ default_session \in DOMAIN sessions
    /\ engines[sessions[default_session]].running
    /\ 1 \notin wrote

----------------------------------------------------------------------------
(***************************************************************************)
(* Ports of exited instances: C32 (SpecVSCode)                             *)
(***************************************************************************)

\* C32: a port is held only by a live instance: start() for a session with
\* no live instance obtains a port whenever fewer than MAX_INSTANCES
\* instances are alive, even if other recorded instances' processes have
\* exited without being stopped (including the requesting session's own
\* exited instance).
C32_PortWheneverBelowMax ==
    [][\A sid \in VsIds :
          (VsStart(sid) /\ ~HasLive(instances, sid)
           /\ Cardinality(LiveIds) < MAX_INSTANCES)
          => vsRet'.result # "RuntimeError"]_vars

----------------------------------------------------------------------------
(***************************************************************************)
(* Reader termination: C33 (SpecReader)                                    *)
(***************************************************************************)

\* a zero-byte read, a read error, or cleanup() has been called
ReaderMustEnd == rl.eof \/ rl.err \/ rl.cleanup # "idle"

\* the thread has ended and the engine is marked not running
ReaderEnded == rl.pc = "done" /\ ~rl.running

\* C33: the reader loop terminates: after the child's output reaches
\* end-of-stream, after a read error, or after cleanup() is called, the
\* reader eventually exits with the engine marked not running, and it
\* broadcasts no chunk after it has marked the engine stopped.
C33_ReaderTerminates ==
    /\ ReaderMustEnd ~> ReaderEnded
    /\ [][rl.marked => rl'.sent = rl.sent]_vars

\* the thread ended after cleanup() closed the descriptor under it, having
\* broadcast before that
C33_Witness ==
    /\ ReaderEnded
    /\ rl.err /\ rl.cleanup = "done"
    /\ rl.sent > 0

----------------------------------------------------------------------------
(***************************************************************************)
(* Timers and tasks: C34 (SpecTimers)                                      *)
(***************************************************************************)

ArmedTimers == {i \in 1..Len(debounce.timers) : debounce.timers[i] = "armed"}
LiveTasks == {i \in 1..Len(sweep.tasks) : sweep.tasks[i] # "done"}

\* C34: at any time an engine has at most one pending (armed, not yet fired)
\* debounce timer, and the supervisor has at most one idle-sweep loop task,
\* regardless of how many chunks are broadcast or how many times
\* start_cleanup_task is called.
C34_OneTimerOneTask ==
    /\ Cardinality(ArmedTimers) <= 1
    /\ Cardinality(LiveTasks) <= 1

\* the third timer is armed after the second was cancelled while armed, and
\* the second sweep task runs after the first ended
C34_Witness ==
    /\ Len(debounce.timers) = 3
    /\ debounce.timers[2] = "cancelled"
    /\ ArmedTimers = {3}
    /\ Len(sweep.tasks) = 2
    /\ LiveTasks = {2}

----------------------------------------------------------------------------
(***************************************************************************)
(* The command across a restart: C35 (SpecCommand)                         *)
(***************************************************************************)

\* C35: restarting a session preserves its launch command: the relaunched
\* engine's command (argument vector, including any extra arguments the
\* session was created with) equals that of the engine it replaces.
C35_RestartKeepsCommand ==
    [][\A sid \in SessionNames \cup {None} :
          (RestartSession(sid, TRUE) /\ RestartName(sid) \in DOMAIN sessions)
          => engines'[sessions'[RestartName(sid)]].command
                 = engines[sessions[RestartName(sid)]].command]_vars

----------------------------------------------------------------------------
(***************************************************************************)
(* Connections that outlive their engine: C36 (SpecRebind)                 *)
(***************************************************************************)

\* connection c is attached to an engine that cleanup() has stopped
BoundToStopped(c) ==
    /\ term[c].pc = "attached"
    /\ engines[term[c].engine].cleaned

\* C36: a client attached to session X before X is deleted or restarted
\* stays bound to the old, stopped engine: until it reconnects it receives no
\* chunk produced by a later engine registered under the same name, and
\* every input it sends gets write() == False and reaches no process.
C36_StaleBinding ==
    /\ [](\A c \in TermIds :
              term[c].pc = "attached"
              => term[c].chunks \subseteq {term[c].engine})
    /\ [][\A c \in TermIds :
              BoundToStopped(c)
              => /\ (term'[c].pc = "attached" => term'[c].engine = term[c].engine)
                 /\ \A e \in EngineIds \ {term[c].engine} :
                        EngineBroadcast(e) => term'[c].chunks = term[c].chunks
                 /\ TermBinaryFrame(c)
                        => lastWrite' = [ret |-> FALSE, io |-> FALSE]]_vars

\* the connection holds the first engine, which was stopped by a restart;
\* the engine now registered under the name it asked for has produced a
\* chunk, which the connection did not receive: it received those of the
\* first engine only; its input was refused
C36_Witness ==
    /\ BoundToStopped(1)
    /\ term[1].engine = 1
    /\ term[1].asked \in DOMAIN sessions
    /\ sessions[term[1].asked] = 2
    /\ engines[2].running /\ engines[2].produced > 0
    /\ term[1].chunks = {1}
    /\ termRet.act = "write"
    /\ lastWrite = [ret |-> FALSE, io |-> FALSE]

====
